---- MODULE Spec2Model ----
(***************************************************************************)
(* doc2md-agent: chunk planner, chunk transformer (retry / fallback),      *)
(* heading normalisation, conversion pipeline and the task runner of the   *)
(* HTTP service.                                                           *)
(*                                                                         *)
(* A text is a non-empty sequence of lines (Python's text.split("\n"));    *)
(* the empty string is the one-line text <<Blank>>.  A line is a record    *)
(* standing for one concrete string without a newline:                     *)
(*   text  ttl=k          "tok<k>"            (3 characters and the digits)*)
(*   blank                ""                                               *)
(*   ws                   " "                                              *)
(*   fence                "```"                                            *)
(*   hash                 "#"                 (a bare marker, no title)    *)
(*   mdfence              "```markdown"                                    *)
(*   head  lvl,sec,dl,ttl "#"*lvl + " " + numeric path + delimiter + " "   *)
(*                         + "T<ttl>"         (path and delimiter optional)*)
(*   jsonfence            "```json"                                        *)
(*   json  dl,ttl=k       the JSON string "tok<k>" on one line, written    *)
(*                        with double quotes (dl = "double", what          *)
(*                        json.dumps prints) or with single quotes         *)
(*                        (dl = "single", parsed only after repair)        *)
(*   notice               "> 以下json格式可能有问题，请检查。"             *)
(*   cause dl=origin      "> 来源：<origin>；自动修复失败原因：<error>"    *)
(*   errmark              "错误码"                                         *)
(*   code  ttl=n          "| <n> |"  (n of four digits)                    *)
(***************************************************************************)
EXTENDS Integers, Sequences, FiniteSets, TLC

VARIABLES
    pc,                 \* position of the modelled computation (the worker thread)
    content_body,       \* convert: content_body (text)
    expected_headings,  \* convert: expected_headings (sequence of headings)
    chunk_size,         \* Doc2MDAgent.chunk_size
    chunk_strategy,     \* Doc2MDAgent.chunk_strategy
    chunk_jobs,         \* convert: chunk_jobs
    markdown,           \* _postprocess_markdown: full_md
    cfg,                \* Doc2MDAgent options read from the configuration
    status,             \* TaskInfo.status
    stop_requested,     \* TaskInfo.stop_requested
    output_file,        \* TaskInfo.output_file
    spc,                \* position of the request thread running stop_task
    stop_at,            \* history: chunk results present when a stop was requested
                        \* inside the chunk loop, -1 before
    attempt,            \* _convert_chunk_with_retry: attempt
    last_error,         \* _convert_chunk_with_retry: last_error
    results,            \* convert: converted_chunks with the meta of each
    preview,            \* the file .partial_preview.md
    exc,                \* the exception that left convert, if any
    llm_calls,          \* LLMProvider: number of backend calls started
    chunk_calls,        \* history: backend calls started for the current chunk
    stop_seen,          \* history: a _check_stop has observed the stop request
    chunk_fallback_count, \* convert: chunk_fallback_count
    validation_warning, \* convert: validation_warning, the text of the validation error
                        \* as the set of the issues it lists ({} for the empty string)
    usage,              \* the usage summary convert returned
    events,             \* TaskInfo.events
    final_doc,          \* the file <stem>.md written by convert
    args,               \* the arguments of the function under study
    ret                 \* what it returned

planVars == <<content_body, expected_headings, chunk_size, chunk_strategy, chunk_jobs, markdown>>

taskVars == <<status, stop_requested, output_file>>

stopVars == <<spc, stop_at>>

workVars == <<cfg, attempt, last_error, results, preview, exc, llm_calls, chunk_calls, stop_seen>>

runVars == <<chunk_fallback_count, validation_warning, usage, events, final_doc>>

callVars == <<args, ret>>

vars == <<pc, planVars, taskVars, stopVars, workVars, runVars, callVars>>

-----------------------------------------------------------------------------
(* Bounds *)

MaxBodyLines == 4
MaxDocLines == 2
MaxPathLen == 6

-----------------------------------------------------------------------------
(* Lines and texts *)

Text(k)  == [t |-> "text",  lvl |-> 0, sec |-> <<>>, dl |-> "none", ttl |-> k]
Blank    == [t |-> "blank", lvl |-> 0, sec |-> <<>>, dl |-> "none", ttl |-> 0]
Ws       == [t |-> "ws",    lvl |-> 0, sec |-> <<>>, dl |-> "none", ttl |-> 0]
Fence    == [t |-> "fence", lvl |-> 0, sec |-> <<>>, dl |-> "none", ttl |-> 0]
Hash     == [t |-> "hash",  lvl |-> 0, sec |-> <<>>, dl |-> "none", ttl |-> 0]
\* "```markdown"
MdFence  == [t |-> "mdfence", lvl |-> 0, sec |-> <<>>, dl |-> "none", ttl |-> 0]
HeadLine(lvl, sec, ttl) == [t |-> "head", lvl |-> lvl, sec |-> sec, dl |-> "none", ttl |-> ttl]
\* a heading whose numeric path is followed by the delimiter "." ("## 1. T1")
HeadLineDot(lvl, sec, ttl) == [t |-> "head", lvl |-> lvl, sec |-> sec, dl |-> "dot", ttl |-> ttl]

\* "```json"
JsonFence == [t |-> "jsonfence", lvl |-> 0, sec |-> <<>>, dl |-> "none", ttl |-> 0]
\* the JSON text "tok<k>" (a string), as json.dumps prints it
JsonLine(k) == [t |-> "json", lvl |-> 0, sec |-> <<>>, dl |-> "double", ttl |-> k]
\* the same string between single quotes: no JSON until repaired
JsonLineSq(k) == [t |-> "json", lvl |-> 0, sec |-> <<>>, dl |-> "single", ttl |-> k]
\* the two lines of the notice _build_json_fallback_block puts above a block
Notice == [t |-> "notice", lvl |-> 0, sec |-> <<>>, dl |-> "none", ttl |-> 0]
NoticeCause(origin) == [t |-> "cause", lvl |-> 0, sec |-> <<>>, dl |-> origin, ttl |-> 0]
\* the marker of an error-code section and a row carrying the code n
ErrMark == [t |-> "errmark", lvl |-> 0, sec |-> <<>>, dl |-> "none", ttl |-> 0]
CodeRow(n) == [t |-> "code", lvl |-> 0, sec |-> <<>>, dl |-> "none", ttl |-> n]

\* a heading text (what follows the markers): numeric path and title
Heading(sec, ttl) == [sec |-> sec, ttl |-> ttl]
NoHeading == [sec |-> <<>>, ttl |-> 0]

\* len(str(n)) for the numbers of the model
DigitLen(n) == IF n < 10 THEN 1 ELSE IF n < 100 THEN 2 ELSE 3

RECURSIVE PathLen(_)
\* len of "1.2.3": the digits and the dots between them
PathLen(sec) ==
    IF sec = <<>> THEN 0
    ELSE DigitLen(sec[1]) + (IF Len(sec) > 1 THEN 1 + PathLen(Tail(sec)) ELSE 0)

\* len of the text of a heading: "1.2 T1", "1. T1" or "T1"
TitleLen(l) ==
    (IF l.sec = <<>> THEN 0 ELSE PathLen(l.sec) + (IF l.dl = "dot" THEN 1 ELSE 0) + 1) + 2

\* len(line)
LineLen(l) ==
    CASE l.t = "text"  -> 3 + DigitLen(l.ttl)
      [] l.t = "blank" -> 0
      [] l.t = "ws"    -> 1
      [] l.t = "fence" -> 3
      [] l.t = "hash"  -> 1
      [] l.t = "mdfence" -> 11
      [] l.t = "head"  -> l.lvl + 1 + TitleLen(l)
      [] l.t = "jsonfence" -> 7
      [] l.t = "json"    -> 6
      [] l.t = "notice"  -> 20
      \* the error text is "Expecting value (line 1, col 1)", 31 characters
      [] l.t = "cause"   -> IF l.dl = "source" THEN 48 ELSE 50
      [] l.t = "errmark" -> 3
      [] l.t = "code"    -> 8

RECURSIVE SumLen(_, _)
SumLen(lines, i) == IF i > Len(lines) THEN 0 ELSE LineLen(lines[i]) + SumLen(lines, i + 1)

\* len(text): the lines plus one newline between two lines
TextLen(txt) == SumLen(txt, 1) + Len(txt) - 1

\* line.strip() == ""
IsBlankLine(l) == l.t \in {"blank", "ws"}

\* line.strip().startswith("```")
IsFenceLine(l) == l.t \in {"fence", "mdfence", "jsonfence"}

\* re.match(r'^\s*#\s+', line)
IsTopHeadingLine(l) == l.t = "head" /\ l.lvl = 1

\* line.startswith("#")
StartsWithHash(l) == l.t \in {"head", "hash"}

\* not text.strip()
IsBlankText(txt) == \A i \in 1..Len(txt) : IsBlankLine(txt[i])

RECURSIVE Flatten(_)
\* "\n".join(texts) for a non-empty list of texts
Flatten(texts) == IF texts = <<>> THEN <<>> ELSE Head(texts) \o Flatten(Tail(texts))

\* F(v), with v evaluated once and handed to F as a value: the steps of a
\* function that assigns its intermediate results to locals
Once(F(_), v) == CHOOSE y \in {F(x) : x \in {v}} : TRUE

-----------------------------------------------------------------------------
(* preprocessor.split_content *)

\* a splitter that loses the line at which it cuts
RECURSIVE SplitLoop_DropCutLine(_, _, _, _, _, _, _)
SplitLoop_DropCutLine(lines, size, i, chunks, current_chunk, current_size, in_code_block) ==
    IF i > Len(lines)
    THEN IF current_chunk # <<>> THEN Append(chunks, current_chunk) ELSE chunks
    ELSE LET line      == lines[i]
             line_size == LineLen(line) + 1
             in_code   == IF IsFenceLine(line) THEN ~in_code_block ELSE in_code_block
             cut       == /\ ~in_code
                          /\ current_size + line_size > size
                          /\ current_size > 0
                          /\ (StartsWithHash(line) \/ current_size * 10 > size * 8)
         IN  IF cut
             THEN SplitLoop_DropCutLine(lines, size, i + 1, Append(chunks, current_chunk),
                                        <<>>, 0, in_code)
             ELSE SplitLoop_DropCutLine(lines, size, i + 1, chunks,
                                        Append(current_chunk, line), current_size + line_size, in_code)

RECURSIVE SplitLoop(_, _, _, _, _, _, _)
SplitLoop(lines, size, i, chunks, current_chunk, current_size, in_code_block) ==
    IF i > Len(lines)
    THEN IF current_chunk # <<>> THEN Append(chunks, current_chunk) ELSE chunks
    ELSE LET line      == lines[i]
             line_size == LineLen(line) + 1
             in_code   == IF IsFenceLine(line) THEN ~in_code_block ELSE in_code_block
             cut       == /\ ~in_code
                          /\ current_size + line_size > size
                          /\ current_size > 0
                          /\ (StartsWithHash(line) \/ current_size * 10 > size * 8)
         IN  IF cut
             THEN SplitLoop(lines, size, i + 1, Append(chunks, current_chunk),
                            <<line>>, line_size, in_code)
             ELSE SplitLoop(lines, size, i + 1, chunks,
                            Append(current_chunk, line), current_size + line_size, in_code)

split_content(txt, size) ==
    IF TextLen(txt) <= size THEN <<txt>>
    ELSE SplitLoop(txt, size, 1, <<>>, <<>>, 0, FALSE)

-----------------------------------------------------------------------------
(* Chunk planner (agent.py) *)

\* _split_raw_sections: the loop that cuts the body at every line matching
\* ^\s*#\s+ ; returns the list of sections, each a list of lines
RECURSIVE SplitSectionsLoop(_, _, _, _)
SplitSectionsLoop(lines, i, sections, current) ==
    IF i > Len(lines)
    THEN IF current # <<>> THEN Append(sections, current) ELSE sections
    ELSE IF IsTopHeadingLine(lines[i])
         THEN SplitSectionsLoop(lines, i + 1,
                                IF current # <<>> THEN Append(sections, current) ELSE sections,
                                <<lines[i]>>)
         ELSE SplitSectionsLoop(lines, i + 1, sections, Append(current, lines[i]))

\* next((ln for ln in section_lines if ln.strip()), "")
RECURSIVE FirstNonEmpty(_, _)
FirstNonEmpty(lines, i) ==
    IF i > Len(lines) THEN Blank
    ELSE IF ~IsBlankLine(lines[i]) THEN lines[i] ELSE FirstNonEmpty(lines, i + 1)

_split_raw_sections(body) ==
    LET sections == SplitSectionsLoop(body, 1, <<>>, <<>>)
    IN  [s \in 1..Len(sections) |->
            LET first == FirstNonEmpty(sections[s], 1)
                has   == IsTopHeadingLine(first)
            IN  [content      |-> sections[s],
                 has_heading  |-> has,
                 heading_text |-> IF has THEN Heading(first.sec, first.ttl) ELSE NoHeading]]

\* _extract_section_id(numbered_heading) or f"section-{k}"
SectionIdOf(heading, k) ==
    IF heading.sec # <<>> THEN <<"num", heading.sec>> ELSE <<"section", k>>

\* bool(re.search(r'^\s*#\s+', chunk, flags=re.MULTILINE)): a "# title" line,
\* or a bare "#" line that is followed by a newline (\s+ matches the newline)
ChunkHasHeading(chunk) ==
    \E i \in 1..Len(chunk) :
        \/ IsTopHeadingLine(chunk[i])
        \/ chunk[i].t = "hash" /\ i < Len(chunk)

\* a planner that marks continuation by the heading alone (drops `idx > 0`)
ContinuationMode_NoIndex(idx, chunk_has_heading) == ~chunk_has_heading

\* the value of `idx > 0 or not chunk_has_heading`
ContinuationMode(idx, chunk_has_heading) == idx > 0 \/ ~chunk_has_heading

\* the jobs of one raw section: one per sub-chunk that is not blank
RECURSIVE SectionJobs(_, _, _, _, _, _, _, _)
SectionJobs(section_chunks, idx, raw, section_id, numbered_heading, prev_heading, next_heading, acc) ==
    IF idx >= Len(section_chunks) THEN acc
    ELSE LET chunk == section_chunks[idx + 1]
             has   == ChunkHasHeading(chunk)
             job   == [content           |-> chunk,
                       section_id        |-> section_id,
                       section_heading   |-> numbered_heading,
                       allowed_headings  |-> IF numbered_heading # NoHeading
                                             THEN <<numbered_heading>> ELSE <<>>,
                       continuation_mode |-> ContinuationMode(idx, has),
                       chunk_has_heading |-> has,
                       previous_heading  |-> prev_heading,
                       next_heading      |-> next_heading,
                       raw               |-> raw,     \* bookkeeping: index of the raw section
                       idx               |-> idx]     \* bookkeeping: index of the sub-chunk
         IN  SectionJobs(section_chunks, idx + 1, raw, section_id, numbered_heading,
                         prev_heading, next_heading,
                         IF IsBlankText(chunk) THEN acc ELSE Append(acc, job))

\* the loop of _build_section_chunks; `raised` is set when an index into
\* expected_headings is out of range (IndexError)
RECURSIVE BuildLoop(_, _, _, _, _, _)
BuildLoop(sections, s, expected, size, heading_index, jobs) ==
    IF s > Len(sections) THEN [raised |-> FALSE, jobs |-> jobs]
    ELSE IF heading_index > 0 /\ heading_index - 1 >= Len(expected)
    THEN [raised |-> TRUE, jobs |-> <<>>]       \* expected_headings[heading_index - 1]
    ELSE LET section == sections[s]
             has_heading == section.has_heading
             numbered_heading ==
                 IF ~has_heading THEN NoHeading
                 ELSE IF heading_index < Len(expected) THEN expected[heading_index + 1]
                 ELSE section.heading_text
             section_id ==
                 IF has_heading THEN SectionIdOf(numbered_heading, heading_index + 1)
                 ELSE <<"preamble", Len(jobs) + 1>>
             prev_heading ==
                 IF heading_index > 0 THEN expected[heading_index] ELSE NoHeading
             next_index == IF has_heading THEN heading_index + 1 ELSE heading_index
             next_heading ==
                 IF next_index < Len(expected) THEN expected[next_index + 1] ELSE NoHeading
             new_jobs == SectionJobs(split_content(section.content, size), 0, s, section_id,
                                     numbered_heading, prev_heading, next_heading, <<>>)
         IN  BuildLoop(sections, s + 1, expected, size,
                       IF has_heading THEN heading_index + 1 ELSE heading_index,
                       jobs \o new_jobs)

_build_section_chunks(body, expected, size) ==
    BuildLoop(_split_raw_sections(body), 1, expected, size, 0, <<>>)

\* convert: the job list of the flat strategy (chunk_strategy != "section")
FlatChunks(body, size) ==
    LET chunks == split_content(body, size)
    IN  [raised |-> FALSE, jobs |-> [i \in 1..Len(chunks) |->
            [content           |-> chunks[i],
             section_id        |-> <<"chunk", i>>,
             section_heading   |-> NoHeading,
             allowed_headings  |-> <<>>,
             continuation_mode |-> FALSE,
             chunk_has_heading |-> ChunkHasHeading(chunks[i]),
             previous_heading  |-> NoHeading,
             next_heading      |-> NoHeading,
             raw               |-> i,
             idx               |-> 0]]]

PlanJobs(body, expected, size, strategy) ==
    IF strategy = "section" THEN _build_section_chunks(body, expected, size)
    ELSE FlatChunks(body, size)

-----------------------------------------------------------------------------
(* Numbered headings (agent.py) *)

Min(a, b) == IF a < b THEN a ELSE b

\* a level that counts the segments without adding one
_heading_level_from_section_id_SegmentsOnly(sec) ==
    IF sec = <<>> THEN 2 ELSE Min(6, Len(sec))

\* _heading_level_from_section_id: min(6, segments + 1)
_heading_level_from_section_id(sec) ==
    IF sec = <<>> THEN 2 ELSE Min(6, Len(sec) + 1)

\* _extract_numbered_heading_candidate applied to the text of a heading line:
\* the path must be followed by whitespace; "1. x" and "2) x" are list items;
\* a top-level number of three or more digits, or a single number outside
\* 1..30, is not a section number
IsNumberedCandidate(l) ==
    /\ l.sec # <<>>
    /\ ~(l.dl = "dot" /\ Len(l.sec) = 1)
    /\ l.sec[1] < 100
    /\ (Len(l.sec) = 1 => (l.sec[1] > 0 /\ l.sec[1] <= 30))

\* re.match(r'^\s*#{1,6}\s+(.+)$', line)
IsHeadingLine(l) == l.t = "head" /\ l.lvl \in 1..6

\* _normalize_numbered_heading_levels
RECURSIVE NormalizeLoop(_, _, _, _)
NormalizeLoop(lines, i, in_code_block, normalized) ==
    IF i > Len(lines) THEN normalized
    ELSE LET line == lines[i]
         IN  IF IsFenceLine(line)
             THEN NormalizeLoop(lines, i + 1, ~in_code_block, Append(normalized, line))
             ELSE IF in_code_block \/ ~IsHeadingLine(line) \/ ~IsNumberedCandidate(line)
             THEN NormalizeLoop(lines, i + 1, in_code_block, Append(normalized, line))
             ELSE NormalizeLoop(lines, i + 1, in_code_block,
                      Append(normalized,
                             HeadLine(_heading_level_from_section_id(line.sec), line.sec, line.ttl)))

_normalize_numbered_heading_levels(md) == NormalizeLoop(md, 1, FALSE, <<>>)

-----------------------------------------------------------------------------
(* Text helpers of the chunk transformer (agent.py) *)

\* "\n".join(lines): the join of no line is the empty string
JoinLines(lines) == IF lines = <<>> THEN <<Blank>> ELSE lines

\* text.strip(): drops the blank lines at both ends
StripText(txt) ==
    IF IsBlankText(txt) THEN <<Blank>>
    ELSE LET first == CHOOSE i \in 1..Len(txt) :
                          ~IsBlankLine(txt[i]) /\ \A j \in 1..(i - 1) : IsBlankLine(txt[j])
             last  == CHOOSE i \in 1..Len(txt) :
                          ~IsBlankLine(txt[i]) /\ \A j \in (i + 1)..Len(txt) : IsBlankLine(txt[j])
         IN  SubSeq(txt, first, last)

\* _remove_fenced_code_blocks: the lines outside fenced code, fence lines dropped
RECURSIVE RemoveFencedLoop(_, _, _, _)
RemoveFencedLoop(lines, i, in_code_block, cleaned) ==
    IF i > Len(lines) THEN cleaned
    ELSE IF IsFenceLine(lines[i])
         THEN RemoveFencedLoop(lines, i + 1, ~in_code_block, cleaned)
         ELSE RemoveFencedLoop(lines, i + 1, in_code_block,
                               IF in_code_block THEN cleaned ELSE Append(cleaned, lines[i]))

_remove_fenced_code_blocks(txt) == JoinLines(RemoveFencedLoop(txt, 1, FALSE, <<>>))

\* lines 1687-1689: strip an outer ```markdown wrapper.  The prefix regex
\* ^\s*```markdown\s*\n needs a newline after the wrapper line and eats the
\* blank lines that follow it; \n```\s*$ removes a closing "```" that is the
\* last non-blank line
StripMarkdownWrapper(converted) ==
    LET opens == \E i \in 1..(Len(converted) - 1) :
                    /\ converted[i].t = "mdfence"
                    /\ \A j \in 1..(i - 1) : IsBlankLine(converted[j])
    IN  IF ~opens THEN converted
        ELSE LET i    == CHOOSE k \in 1..Len(converted) :
                             converted[k].t = "mdfence" /\ \A j \in 1..(k - 1) : IsBlankLine(converted[j])
                 rest == SubSeq(converted, i + 1, Len(converted))
                 body == IF IsBlankText(rest) THEN <<rest[Len(rest)]>>
                         ELSE LET f == CHOOSE k \in 1..Len(rest) :
                                          ~IsBlankLine(rest[k]) /\ \A j \in 1..(k - 1) : IsBlankLine(rest[j])
                              IN  SubSeq(rest, f, Len(rest))
                 closes == \E k \in 2..Len(body) :
                              body[k].t = "fence" /\ \A j \in (k + 1)..Len(body) : IsBlankLine(body[j])
             IN  IF ~closes THEN body
                 ELSE LET k == CHOOSE c \in 2..Len(body) :
                                  body[c].t = "fence" /\ \A j \in (c + 1)..Len(body) : IsBlankLine(body[j])
                      IN  SubSeq(body, 1, k - 1)

\* re.sub(r'\n{3,}', '\n\n', text): a run of empty lines becomes one empty line
RECURSIVE CollapseEmptyRuns(_, _, _)
CollapseEmptyRuns(lines, i, acc) ==
    IF i > Len(lines) THEN acc
    ELSE IF /\ lines[i].t = "blank" /\ i > 1 /\ lines[i - 1].t = "blank"
            /\ (i < Len(lines))
         THEN CollapseEmptyRuns(lines, i + 1, acc)
         ELSE CollapseEmptyRuns(lines, i + 1, Append(acc, lines[i]))

\* a stripper that keeps the first heading line it meets
RECURSIVE StripHeadingsLoop_KeepFirst(_, _, _, _, _)
StripHeadingsLoop_KeepFirst(lines, i, in_code_block, sanitized, removed) ==
    IF i > Len(lines) THEN [lines |-> sanitized, removed |-> removed]
    ELSE IF IsFenceLine(lines[i])
         THEN StripHeadingsLoop_KeepFirst(lines, i + 1, ~in_code_block, Append(sanitized, lines[i]), removed)
         ELSE IF ~in_code_block /\ IsHeadingLine(lines[i]) /\ i > 1
         THEN StripHeadingsLoop_KeepFirst(lines, i + 1, in_code_block, sanitized, removed + 1)
         ELSE StripHeadingsLoop_KeepFirst(lines, i + 1, in_code_block, Append(sanitized, lines[i]), removed)

\* the loop of _strip_heading_lines_outside_code_blocks
RECURSIVE StripHeadingsLoop(_, _, _, _, _)
StripHeadingsLoop(lines, i, in_code_block, sanitized, removed) ==
    IF i > Len(lines) THEN [lines |-> sanitized, removed |-> removed]
    ELSE IF IsFenceLine(lines[i])
         THEN StripHeadingsLoop(lines, i + 1, ~in_code_block, Append(sanitized, lines[i]), removed)
         ELSE IF ~in_code_block /\ IsHeadingLine(lines[i])
         THEN StripHeadingsLoop(lines, i + 1, in_code_block, sanitized, removed + 1)
         ELSE StripHeadingsLoop(lines, i + 1, in_code_block, Append(sanitized, lines[i]), removed)

\* _strip_heading_lines_outside_code_blocks: (sanitized text, number removed)
_strip_heading_lines_outside_code_blocks(txt) ==
    LET r == StripHeadingsLoop(txt, 1, FALSE, <<>>, 0)
        joined == JoinLines(r.lines)
    IN  [text    |-> StripText(CollapseEmptyRuns(joined, 1, <<>>)),
         removed |-> r.removed]

\* the heading lines outside code of a text, as indices (fence lines toggle)
RECURSIVE HeadingIndices(_, _, _, _)
HeadingIndices(lines, i, in_code_block, acc) ==
    IF i > Len(lines) THEN acc
    ELSE IF IsFenceLine(lines[i]) THEN HeadingIndices(lines, i + 1, ~in_code_block, acc)
    ELSE IF ~in_code_block /\ IsHeadingLine(lines[i])
         THEN HeadingIndices(lines, i + 1, in_code_block, Append(acc, i))
         ELSE HeadingIndices(lines, i + 1, in_code_block, acc)

\* the title of a heading line equals the target with or without its number
TitleMatches(l, target) == l.dl = "none" /\ l.ttl = target.ttl

\* _ensure_allowed_heading_in_chunk: (text, heading_fixed)
_ensure_allowed_heading_in_chunk(converted, allowed_headings, continuation_mode, chunk_has_heading) ==
    IF continuation_mode \/ allowed_headings = <<>> THEN [text |-> converted, fixed |-> FALSE]
    ELSE LET target      == allowed_headings[1]
             target_line == HeadLine(_heading_level_from_section_id(target.sec), target.sec, target.ttl)
             idxs        == HeadingIndices(converted, 1, FALSE, <<>>)
             matching    == {k \in 1..Len(idxs) : TitleMatches(converted[idxs[k]], target)}
         IN  IF matching # {}
             THEN LET k == CHOOSE m \in matching : \A o \in matching : m <= o
                  IN  IF converted[idxs[k]] # target_line
                      THEN [text |-> [converted EXCEPT ![idxs[k]] = target_line], fixed |-> TRUE]
                      ELSE [text |-> converted, fixed |-> FALSE]
             ELSE IF idxs # <<>>
             THEN IF converted[idxs[1]] # target_line
                  THEN [text |-> [converted EXCEPT ![idxs[1]] = target_line], fixed |-> TRUE]
                  ELSE [text |-> converted, fixed |-> FALSE]
             ELSE IF chunk_has_heading
             THEN IF IsBlankText(converted) THEN [text |-> <<target_line>>, fixed |-> TRUE]
                  ELSE [text |-> <<target_line, Blank>> \o StripText(converted), fixed |-> TRUE]
             ELSE [text |-> converted, fixed |-> FALSE]

-----------------------------------------------------------------------------
(* Fenced JSON blocks and error codes (agent.py).  The block patterns are   *)
(* modelled for texts in which the line that closes a block is "```".       *)

RECURSIVE BlocksFrom(_, _, _)
\* finditer of r'```<opener>\s*\n(.*?)\n```' with re.S, from line i on: a
\* block opens at a line of kind `openers` and closes at the first fence
\* line two or more lines below (the pattern needs a newline on both sides
\* of the content); the search goes on after the closing line
BlocksFrom(txt, i, openers) ==
    IF i > Len(txt) THEN <<>>
    ELSE IF txt[i].t \in openers /\ \E j \in (i + 2)..Len(txt) : IsFenceLine(txt[j])
    THEN LET j == CHOOSE c \in (i + 2)..Len(txt) :
                      IsFenceLine(txt[c]) /\ \A d \in (i + 2)..(c - 1) : ~IsFenceLine(txt[d])
         IN  <<[first |-> i, last |-> j, lang |-> txt[i].t,
                content |-> StripText(SubSeq(txt, i + 1, j - 1))]>>
                 \o BlocksFrom(txt, j + 1, openers)
    ELSE BlocksFrom(txt, i + 1, openers)

\* _extract_json_blocks: the ```json blocks of a text, contents stripped
_extract_json_blocks(txt) == BlocksFrom(txt, 1, {"jsonfence"})

\* _extract_json_candidate_code_blocks: the non-empty blocks whose language
\* is json, or is missing while the content starts with "{" or "[" (no line
\* of the model does)
_extract_json_candidate_code_blocks(txt) ==
    SelectSeq(BlocksFrom(txt, 1, {"fence", "mdfence", "jsonfence"}),
              LAMBDA b : ~IsBlankText(b.content) /\ b.lang = "jsonfence")

\* _normalize_json_block_with_diagnostics on a stripped content: of the
\* contents of the model only a single JSON string parses, raw when it is
\* written with double quotes and after the smart fill otherwise; the
\* normalised form is what json.dumps prints
_normalize_json_block_with_diagnostics(content) ==
    LET ok == Len(content) = 1 /\ content[1].t = "json"
    IN  [ok          |-> ok,
         normalized  |-> IF ok THEN <<JsonLine(content[1].ttl)>> ELSE content,
         is_repaired |-> ok /\ content[1].dl = "single"]

\* a block rendered by the two JSON passes: ```json around the normalised
\* content, or _build_json_fallback_block (notice, plain fence) around the
\* content that could not be repaired
RenderJsonBlock(content, origin) ==
    LET d == _normalize_json_block_with_diagnostics(content)
    IN  IF d.ok THEN <<JsonFence>> \o d.normalized \o <<Fence>>
        ELSE <<Notice, NoticeCause(origin), Blank, Fence>> \o content \o <<Fence>>

\* text.rstrip(): drops the blank lines at the end
RStripText(txt) ==
    IF IsBlankText(txt) THEN <<Blank>>
    ELSE LET last == CHOOSE i \in 1..Len(txt) :
                         ~IsBlankLine(txt[i]) /\ \A j \in (i + 1)..Len(txt) : IsBlankLine(txt[j])
         IN  SubSeq(txt, 1, last)

RECURSIVE JoinBlocks(_)
\* "\n\n".join(rendered)
JoinBlocks(rendered) ==
    IF Len(rendered) = 1 THEN rendered[1]
    ELSE rendered[1] \o <<Blank>> \o JoinBlocks(Tail(rendered))

\* lines 1317-1324: the block that takes the place of the match idx, a
\* source block while there is one (replace_count = min of the two
\* lengths), else the block of the output itself
ReplacementFor(matches, rendered, idx, txt) ==
    IF idx <= Len(rendered) THEN rendered[idx]
    ELSE SubSeq(txt, matches[idx].first, matches[idx].last)

RECURSIVE SpliceBlocks(_, _, _, _, _)
\* "".join(parts): the text with each match replaced, from match idx on,
\* last_end being the last line consumed
SpliceBlocks(txt, matches, rendered, idx, last_end) ==
    IF idx > Len(matches) THEN SubSeq(txt, last_end + 1, Len(txt))
    ELSE SubSeq(txt, last_end + 1, matches[idx].first - 1)
             \o ReplacementFor(matches, rendered, idx, txt)
             \o SpliceBlocks(txt, matches, rendered, idx + 1, matches[idx].last)

\* _replace_output_json_blocks_with_source_and_report: the text returned
_replace_output_json_blocks_with_source(source_chunk, converted_chunk) ==
    LET source_blocks == _extract_json_blocks(source_chunk)
        rendered == [k \in 1..Len(source_blocks) |->
                        RenderJsonBlock(source_blocks[k].content, "source")]
        matches  == _extract_json_blocks(converted_chunk)
    IN  IF source_blocks = <<>> THEN converted_chunk
        ELSE IF matches = <<>>
        THEN IF IsBlankText(converted_chunk) THEN JoinBlocks(rendered)
             ELSE RStripText(converted_chunk) \o <<Blank>> \o JoinBlocks(rendered)
        ELSE LET spliced == SpliceBlocks(converted_chunk, matches, rendered, 1, 0)
             IN  IF Len(matches) < Len(rendered)
                 THEN spliced \o <<Blank>>
                          \o JoinBlocks(SubSeq(rendered, Len(matches) + 1, Len(rendered)))
                 ELSE spliced

RECURSIVE SanitizeBlocks(_, _, _, _)
SanitizeBlocks(txt, matches, idx, last_end) ==
    IF idx > Len(matches) THEN SubSeq(txt, last_end + 1, Len(txt))
    ELSE SubSeq(txt, last_end + 1, matches[idx].first - 1)
             \o RenderJsonBlock(matches[idx].content, "output")
             \o SanitizeBlocks(txt, matches, idx + 1, matches[idx].last)

\* _sanitize_output_json_blocks_with_report: every ```json block of the
\* output normalised, or turned into a plain block under a notice
_sanitize_output_json_blocks(converted_chunk) ==
    LET matches == _extract_json_blocks(converted_chunk)
    IN  IF matches = <<>> THEN converted_chunk
        ELSE JoinLines(SanitizeBlocks(converted_chunk, matches, 1, 0))

\* "错误码" in text
HasErrorCodeMarker(txt) == \E i \in 1..Len(txt) : txt[i].t = "errmark"

\* _extract_error_codes: the numbers of four to six digits that open a line
\* and are followed by "|" or two blanks, inside code blocks too
_extract_error_codes(txt) == {txt[i].ttl : i \in {k \in 1..Len(txt) : txt[k].t = "code"}}

-----------------------------------------------------------------------------
(* Content-fidelity guard and chunk validation (agent.py) *)

\* the content tokens of one line (_normalize_text_for_content_guard followed
\* by the token regex): the word of a text line, the title word of a heading
\* and the numbers of two or more digits of its path; "```markdown" leaves
\* the word "markdown"
LineTokens(l) ==
    CASE l.t = "text"    -> {<<"tok", l.ttl>>}
      [] l.t = "mdfence" -> {<<"markdown", 0>>}
      [] l.t = "head"    ->
            {<<"t", l.ttl>>} \cup
            (IF l.lvl \in 1..6 /\ l.dl = "dot" /\ Len(l.sec) = 1 THEN {}
             ELSE {<<"num", l.sec[k]>> : k \in {m \in 1..Len(l.sec) : l.sec[m] >= 10}})
      [] l.t = "json"    -> {<<"tok", l.ttl>>}
      [] l.t = "notice"  -> {<<"notice", 1>>, <<"notice", 2>>, <<"notice", 3>>, <<"json", 0>>}
      [] l.t = "cause"   -> {<<"cause", k>> : k \in 1..7}
      [] l.t = "errmark" -> {<<"errmark", 0>>}
      [] l.t = "code"    -> {<<"num", l.ttl>>}
      [] OTHER -> {}

\* _extract_content_tokens_for_guard, as the set of distinct tokens
ContentTokens(txt) == UNION {LineTokens(txt[i]) : i \in 1..Len(txt)}

\* len of the normalised form of one line
PlainLineLen(l) ==
    CASE l.t = "text"    -> 3 + DigitLen(l.ttl)
      [] l.t = "mdfence" -> 8
      [] l.t = "hash"    -> 1
      [] l.t = "head"    ->
            IF l.lvl \notin 1..6 THEN LineLen(l)
            ELSE IF l.dl = "dot" /\ Len(l.sec) = 1 THEN 2 ELSE TitleLen(l)
      [] l.t \in {"json", "notice", "cause", "errmark"} -> LineLen(l)
      [] l.t = "code"    -> 4
      [] OTHER -> 0

RECURSIVE PlainSum(_, _, _)
\* the normalised non-empty lines lo..hi, each with one separator (the
\* range is halved, which keeps the evaluation shallow for long texts)
PlainSum(txt, lo, hi) ==
    IF lo > hi THEN 0
    ELSE IF lo = hi THEN (IF PlainLineLen(txt[lo]) = 0 THEN 0 ELSE PlainLineLen(txt[lo]) + 1)
    ELSE PlainSum(txt, lo, (lo + hi) \div 2) + PlainSum(txt, (lo + hi) \div 2 + 1, hi)

\* len(" ".join(normalised non-empty lines)) for the lines from i on; `seen`
\* tells that a non-empty line precedes them
PlainLen(txt, i, seen) ==
    LET total == PlainSum(txt, i, Len(txt))
    IN  IF total = 0 \/ seen THEN total ELSE total - 1

\* min_content_token_coverage and min_content_char_ratio, in percent
MinContentTokenCoveragePct == 82
MinContentCharRatioPct == 62
\* the length from which the character ratio is checked
CharRatioMinSourceLen == 120
\* content_guard_min_tokens, the default
ContentGuardMinTokens == 20

\* a guard that looks at the token coverage only
_check_content_preservation_TokensOnly(source_chunk, converted_chunk, min_tokens) ==
    LET unique  == ContentTokens(source_chunk)
        matched == Cardinality(unique \cap ContentTokens(converted_chunk))
    IN  IF unique = {} THEN "ok"
        ELSE IF /\ Cardinality(unique) >= min_tokens
                /\ matched * 100 < MinContentTokenCoveragePct * Cardinality(unique)
        THEN "token_coverage_too_low"
        ELSE "ok"

\* _check_content_preservation: "ok" or the reason
_check_content_preservation(source_chunk, converted_chunk, min_tokens) ==
    LET unique  == ContentTokens(source_chunk)
        matched == Cardinality(unique \cap ContentTokens(converted_chunk))
        src_len == PlainLen(source_chunk, 1, FALSE)
        out_len == PlainLen(converted_chunk, 1, FALSE)
    IN  IF unique = {} THEN "ok"
        ELSE IF /\ Cardinality(unique) >= min_tokens
                /\ matched * 100 < MinContentTokenCoveragePct * Cardinality(unique)
        THEN "token_coverage_too_low"
        ELSE IF src_len >= CharRatioMinSourceLen /\ out_len * 100 < MinContentCharRatioPct * src_len
        THEN "char_ratio_too_low"
        ELSE "ok"

\* re.findall(r'^\s*#{1,6}\s+.+$', text, re.MULTILINE) is not empty: a heading
\* line, or a bare "#" with a non-empty line somewhere after it (\s+ spans
\* the newlines)
HasHeadingLines(txt) ==
    \E i \in 1..Len(txt) :
        \/ IsHeadingLine(txt[i])
        \/ txt[i].t = "hash" /\ \E j \in (i + 1)..Len(txt) : LineLen(txt[j]) > 0

\* _extract_numbered_headings: the headings ^#{2,6}\s+ outside code whose
\* title starts with a digit
NumberedHeadings(txt) ==
    LET nc == _remove_fenced_code_blocks(txt)
    IN  SelectSeq(nc, LAMBDA l : l.t = "head" /\ l.lvl \in 2..6 /\ l.sec # <<>>)

\* _normalize_heading_text of a heading text: path, delimiter and title
NormHeading(sec, dl, ttl) == <<sec, dl, ttl>>

IntroducesJsonBlock_Never(source_json_blocks, output_json_blocks) ==
    FALSE

\* lines 1609-1610: the source has no ```json block and the output has one
IntroducesJsonBlock(source_json_blocks, output_json_blocks) ==
    source_json_blocks = <<>> /\ output_json_blocks # <<>>

\* _validate_chunk_output: "ok" or the reason of the rejection
_validate_chunk_output(source_chunk, converted_chunk, allowed_headings, continuation_mode, truncated, min_tokens) ==
    LET output         == StripText(converted_chunk)
        output_no_code == _remove_fenced_code_blocks(output)
        allowed_norm   == {NormHeading(allowed_headings[k].sec, "none", allowed_headings[k].ttl) :
                              k \in 1..Len(allowed_headings)}
        numbered       == NumberedHeadings(output)
        numbered_norm  == [k \in 1..Len(numbered) |->
                              NormHeading(numbered[k].sec, numbered[k].dl, numbered[k].ttl)]
        level_mismatch ==
            \E i \in 1..Len(output_no_code) :
                LET l == output_no_code[i]
                IN  /\ IsHeadingLine(l) /\ l.sec # <<>> /\ l.dl = "none"
                    /\ l.lvl # _heading_level_from_section_id(l.sec)
        source_json_blocks == _extract_json_blocks(source_chunk)
        output_json_blocks == _extract_json_blocks(output)
        source_codes == _extract_error_codes(source_chunk)
        output_codes == _extract_error_codes(output)
    IN  IF truncated THEN "truncated"
        ELSE IF IsBlankText(converted_chunk) THEN "empty"
        ELSE IF continuation_mode /\ HasHeadingLines(output_no_code)
        THEN "continuation_has_heading_lines"
        ELSE IF numbered # <<>> /\ continuation_mode THEN "continuation_has_numbered_heading"
        ELSE IF numbered # <<>> /\ allowed_norm = {} THEN "numbered_heading_not_allowed_here"
        ELSE IF \E k \in 1..Len(numbered) : numbered_norm[k] \notin allowed_norm
        THEN "heading_not_allowed"
        ELSE IF numbered # <<>> /\ Len(numbered) > Cardinality(allowed_norm)
        THEN "too_many_headings"
        ELSE IF numbered # <<>> /\ level_mismatch THEN "heading_level_mismatch"
        ELSE IF ~continuation_mode /\ allowed_norm # {} /\ numbered = <<>>
        THEN "missing_required_heading"
        ELSE IF IntroducesJsonBlock(source_json_blocks, output_json_blocks)
        THEN "new_json_block"
        ELSE IF Len(_extract_json_candidate_code_blocks(output)) < Len(source_json_blocks)
        THEN "json_block_count_mismatch"
        ELSE IF \E k \in 1..Len(output_json_blocks) :
                    ~_normalize_json_block_with_diagnostics(output_json_blocks[k].content).ok
        THEN "invalid_json_block"
        ELSE IF /\ HasErrorCodeMarker(source_chunk)
                /\ source_codes # {} /\ output_codes # {}
                /\ ~(output_codes \subseteq source_codes)
        THEN "unknown_error_codes"
        ELSE _check_content_preservation(source_chunk, output, min_tokens)

\* one pass of the loop body of _convert_chunk_with_retry after the backend
\* returned (lines 1687-1775): wrapper stripping, the two JSON passes,
\* heading stripping for a continuation chunk, heading forcing, validation
NormalizeAndValidate(job, content, truncated, min_tokens) ==
    LET Validated(stripped, ensured) ==
            [converted      |-> ensured.text,
             removed        |-> stripped.removed,
             heading_fixed  |-> ensured.fixed,
             reason         |-> _validate_chunk_output(job.content, ensured.text,
                                                       job.allowed_headings,
                                                       job.continuation_mode, truncated,
                                                       min_tokens)]
        Ensured(stripped) ==
            Once(LAMBDA ensured : Validated(stripped, ensured),
                 _ensure_allowed_heading_in_chunk(stripped.text, job.allowed_headings,
                                                  job.continuation_mode, job.chunk_has_heading))
        Stripped(sanitized) ==
            Once(Ensured, IF job.continuation_mode
                          THEN _strip_heading_lines_outside_code_blocks(sanitized)
                          ELSE [text |-> sanitized, removed |-> 0])
        Sanitized(replaced) == Once(Stripped, _sanitize_output_json_blocks(replaced))
        Replaced(unwrapped) ==
            Once(Sanitized, _replace_output_json_blocks_with_source(job.content, unwrapped))
    IN  Once(Replaced, StripMarkdownWrapper(content))

\* lines 1823-1843: the fallback text built from the source chunk
FallbackFromSource(job, min_tokens) ==
    LET Validated(stripped, ensured) ==
            [converted      |-> ensured.text,
             removed        |-> stripped.removed,
             heading_fixed  |-> ensured.fixed,
             reason         |-> _validate_chunk_output(job.content, ensured.text,
                                                       job.allowed_headings,
                                                       job.continuation_mode, FALSE,
                                                       min_tokens)]
        Ensured(stripped) ==
            Once(LAMBDA ensured : Validated(stripped, ensured),
                 _ensure_allowed_heading_in_chunk(stripped.text, job.allowed_headings,
                                                  job.continuation_mode, job.chunk_has_heading))
        Stripped(sanitized) ==
            Once(Ensured, IF job.continuation_mode
                          THEN _strip_heading_lines_outside_code_blocks(sanitized)
                          ELSE [text |-> sanitized, removed |-> 0])
        Sanitized(replaced) == Once(Stripped, _sanitize_output_json_blocks(replaced))
    IN  Once(Sanitized, _replace_output_json_blocks_with_source(job.content, job.content))

(* Doc2MDAgent._validate_final_output *)

\* Counter(...)[x] of a list
CountIn(seq, x) == Cardinality({k \in 1..Len(seq) : seq[k] = x})

SeqRange(seq) == {seq[k] : k \in 1..Len(seq)}

\* lines 2010-2014: an expected heading occurs fewer times than expected
HasMissingHeadings(expected_norm, actual_norm) ==
    \E h \in SeqRange(expected_norm) : CountIn(expected_norm, h) - CountIn(actual_norm, h) > 0

HasExtraHeadings_AsSets(expected_norm, actual_norm) ==
    \E h \in SeqRange(actual_norm) : h \notin SeqRange(expected_norm)

\* lines 2015-2018: a numbered heading occurs more times than expected
HasExtraHeadings(expected_norm, actual_norm) ==
    \E h \in SeqRange(actual_norm) : CountIn(actual_norm, h) - CountIn(expected_norm, h) > 0

\* _validate_final_output: the set of the issues it joins into its error; the
\* empty set when it returns.  The third check, on the sections whose heading
\* title contains the error-code marker, has nothing to report here: no
\* heading title of the alphabet contains the marker.
_validate_final_output(raw_md, final_md, expected) ==
    LET expected_norm == [k \in 1..Len(expected) |->
                             NormHeading(expected[k].sec, "none", expected[k].ttl)]
        actual        == NumberedHeadings(final_md)
        actual_norm   == [k \in 1..Len(actual) |->
                             NormHeading(actual[k].sec, actual[k].dl, actual[k].ttl)]
        no_code       == _remove_fenced_code_blocks(final_md)
        h1_count      == Cardinality({k \in 1..Len(no_code) :
                                         no_code[k].t = "head" /\ no_code[k].lvl = 1})
        blocks        == _extract_json_blocks(final_md)
    IN  (IF expected # <<>> /\ HasMissingHeadings(expected_norm, actual_norm)
         THEN {"missing_headings"} ELSE {})
        \cup (IF expected # <<>> /\ HasExtraHeadings(expected_norm, actual_norm)
              THEN {"extra_headings"} ELSE {})
        \cup (IF h1_count > 1 THEN {"h1_repeated"} ELSE {})
        \cup (IF \E k \in 1..Len(blocks) :
                     ~_normalize_json_block_with_diagnostics(blocks[k].content).ok
              THEN {"invalid_json"} ELSE {})

-----------------------------------------------------------------------------
(* The planner applied to every small body: specification SpecPlan *)

PlannerLines ==
    {Text(1), Blank, Ws, Fence, Hash, HeadLine(1, <<>>, 1), HeadLine(2, <<>>, 1)}

BodyTexts == UNION {[1..n -> PlannerLines] : n \in 1..MaxBodyLines}

ChunkSizes == {5, 8}

ExpectedLists == {<<>>, <<Heading(<<1>>, 1), Heading(<<1, 1>>, 2)>>}

\* the task and worker variables of a system in which no task was created
NoTask ==
    /\ cfg = [max_chunk_retries |-> 0, allow_partial_on_chunk_failure |-> FALSE,
              content_guard_min_tokens |-> 20, generate_toc |-> TRUE, deterministic_toc |-> TRUE,
              strict_mode |-> FALSE, allow_partial_on_validation_failure |-> TRUE]
    /\ status = "none"
    /\ stop_requested = FALSE
    /\ output_file = [exists |-> FALSE]
    /\ spc = "idle"
    /\ stop_at = -1
    /\ attempt = 0
    /\ last_error = ""
    /\ results = <<>>
    /\ preview = [exists |-> FALSE]
    /\ exc = [kind |-> "none"]
    /\ llm_calls = 0
    /\ chunk_calls = 0
    /\ stop_seen = FALSE
    /\ chunk_fallback_count = 0
    /\ validation_warning = {}
    /\ usage = [returned |-> FALSE]
    /\ events = <<>>
    /\ final_doc = [exists |-> FALSE]

\* no function is under study
NoCall == args = <<>> /\ ret = <<>>

InitPlan ==
    /\ NoTask
    /\ NoCall
    /\ pc = "plan"
    /\ content_body \in BodyTexts
    /\ expected_headings \in ExpectedLists
    /\ chunk_size \in ChunkSizes
    /\ chunk_strategy \in {"section", "flat"}
    /\ chunk_jobs = <<>>
    /\ markdown = <<Blank>>

\* convert, lines 257-272: build the job list
PlanChunks ==
    /\ pc = "plan"
    /\ LET r == PlanJobs(content_body, expected_headings, chunk_size, chunk_strategy)
       IN  /\ pc' = IF r.raised THEN "plan_raised" ELSE "planned"
           /\ chunk_jobs' = r.jobs
    /\ UNCHANGED <<content_body, expected_headings, chunk_size, chunk_strategy, markdown>>
    /\ UNCHANGED <<taskVars, stopVars, workVars>>
    /\ UNCHANGED <<runVars, callVars>>

NextPlan == PlanChunks

SpecPlan == InitPlan /\ [][NextPlan]_vars

-----------------------------------------------------------------------------
(* Properties of the planner *)

\* "\n".join(texts); the join of no text is the empty string
JoinTexts(texts) == IF texts = <<>> THEN <<Blank>> ELSE Flatten(texts)

JobContents == [j \in 1..Len(chunk_jobs) |-> chunk_jobs[j].content]

\* the job contents are disjoint line ranges of body[i..], in order, and every
\* line of body[i..] outside these ranges is blank or whitespace-only
RECURSIVE CoversUpToBlankLines(_, _, _, _)
CoversUpToBlankLines(body, i, contents, j) ==
    IF j > Len(contents)
    THEN \A p \in i..Len(body) : IsBlankLine(body[p])
    ELSE \E k \in 0..(Len(body) - i + 1) :
            /\ \A p \in i..(i + k - 1) : IsBlankLine(body[p])
            /\ i + k + Len(contents[j]) - 1 <= Len(body)
            /\ SubSeq(body, i + k, i + k + Len(contents[j]) - 1) = contents[j]
            /\ CoversUpToBlankLines(body, i + k + Len(contents[j]), contents, j + 1)

RECURSIVE FenceCount(_, _)
FenceCount(lines, i) ==
    IF i > Len(lines) THEN 0
    ELSE (IF IsFenceLine(lines[i]) THEN 1 ELSE 0) + FenceCount(lines, i + 1)

\* the lines of the first k jobs / of the jobs after the k-th
JobsUpTo(k) == Flatten(SubSeq(JobContents, 1, k))
JobsAfter(k) == Flatten(SubSeq(JobContents, k + 1, Len(JobContents)))

\* C8: no boundary between two jobs lies between an opening fence line and
\* its closing fence line: when the jobs before a boundary hold an odd number
\* of fence lines (a block is open), no fence line follows the boundary
C8_NoBoundaryInsideFence ==
    pc = "planned" =>
        \A k \in 1..(Len(chunk_jobs) - 1) :
            FenceCount(JobsUpTo(k), 1) % 2 = 1 => FenceCount(JobsAfter(k), 1) = 0

\* C9: of the jobs of one raw section only the first sub-chunk can have
\* continuation_mode = FALSE, and every job has a boolean continuation_mode
C9_OnlyFirstSubChunkOpens ==
    pc = "planned" =>
        /\ \A j \in 1..Len(chunk_jobs) : chunk_jobs[j].continuation_mode \in BOOLEAN
        /\ \A i, j \in 1..Len(chunk_jobs) :
              (i < j /\ chunk_jobs[i].raw = chunk_jobs[j].raw)
                  => chunk_jobs[j].continuation_mode = TRUE
        /\ \A j \in 1..Len(chunk_jobs) :
              chunk_jobs[j].continuation_mode = FALSE => chunk_jobs[j].idx = 0

\* a section cut into two jobs, the first opening the section, the second
\* holding a line that the heading search matches
C9_Witness ==
    /\ pc = "planned"
    /\ chunk_strategy = "section"
    /\ \E i, j \in 1..Len(chunk_jobs) :
          /\ i < j
          /\ chunk_jobs[i].raw = chunk_jobs[j].raw
          /\ chunk_jobs[i].continuation_mode = FALSE
          /\ chunk_jobs[j].chunk_has_heading
          /\ chunk_jobs[j].continuation_mode = TRUE

-----------------------------------------------------------------------------
(* Heading normalisation applied to every small document: SpecHead *)

NumericPaths == {[i \in 1..n |-> 1] : n \in 1..MaxPathLen} \cup {<<31>>, <<100, 1>>}

DocLines ==
    {HeadLine(lvl, sec, 1) : lvl \in {1, 3, 6}, sec \in NumericPaths}
        \cup {HeadLineDot(2, <<1>>, 1), HeadLineDot(2, <<1, 1>>, 1),
              HeadLine(4, <<>>, 1), Fence, Text(1)}

DocTexts == UNION {[1..n -> DocLines] : n \in 1..MaxDocLines}

InitHead ==
    /\ NoTask
    /\ NoCall
    /\ pc = "normalize"
    /\ markdown \in DocTexts
    /\ content_body = <<Blank>>
    /\ expected_headings = <<>>
    /\ chunk_size = 8
    /\ chunk_strategy = "section"
    /\ chunk_jobs = <<>>

\* _postprocess_markdown, line 562
NormalizeHeadings ==
    /\ pc = "normalize"
    /\ markdown' = _normalize_numbered_heading_levels(markdown)
    /\ pc' = "normalized"
    /\ UNCHANGED <<content_body, expected_headings, chunk_size, chunk_strategy, chunk_jobs>>
    /\ UNCHANGED <<taskVars, stopVars, workVars>>
    /\ UNCHANGED <<runVars, callVars>>

NextHead == NormalizeHeadings

SpecHead == InitHead /\ [][NextHead]_vars

\* the line i of a text lies outside fenced code (fence lines toggle)
OutsideCode(txt, i) == ~IsFenceLine(txt[i]) /\ FenceCount(SubSeq(txt, 1, i - 1), 1) % 2 = 0

\* a heading line that carries a numeric path
IsNumberedHeadingLine(l) == IsHeadingLine(l) /\ l.sec # <<>>

\* C10 as stated, for the headings whose text is a section number: every
\* such heading outside fenced code has the depth segments + 1, whatever the
\* length of its path
C10_DepthIsSegmentsPlusOne ==
    pc = "normalized" =>
        \A i \in 1..Len(markdown) :
            (/\ OutsideCode(markdown, i)
             /\ IsNumberedHeadingLine(markdown[i])
             /\ markdown[i].sec[1] < 100
             /\ (Len(markdown[i].sec) = 1 =>
                    /\ markdown[i].sec[1] \in 1..30
                    /\ markdown[i].dl = "none"))
                => markdown[i].lvl = Len(markdown[i].sec) + 1

\* C10 amended: every heading outside fenced code whose text is a section
\* number (a path of numbers followed by whitespace, its first number of at
\* most two digits, a single number within 1..30 and not followed by "." or
\* ")") has the depth min(6, segments + 1)
C10_DepthIsClampedSegmentsPlusOne ==
    pc = "normalized" =>
        \A i \in 1..Len(markdown) :
            (/\ OutsideCode(markdown, i)
             /\ IsNumberedHeadingLine(markdown[i])
             /\ markdown[i].sec[1] < 100
             /\ (Len(markdown[i].sec) = 1 =>
                    /\ markdown[i].sec[1] \in 1..30
                    /\ markdown[i].dl = "none"))
                => /\ markdown[i].lvl = Min(6, Len(markdown[i].sec) + 1)
                   /\ markdown[i].dl = "none"

\* a normalised document with a heading of six segments and one of two
C10_Witness ==
    /\ pc = "normalized"
    /\ \E i, j \in 1..Len(markdown) :
          /\ IsNumberedHeadingLine(markdown[i]) /\ Len(markdown[i].sec) = 6
          /\ markdown[i].lvl = 6
          /\ IsNumberedHeadingLine(markdown[j]) /\ Len(markdown[j].sec) = 2
          /\ markdown[j].lvl = 3

-----------------------------------------------------------------------------
(* The conversion task: server._run_task running Doc2MDAgent.convert in a   *)
(* worker thread, and server.stop_task running in a request thread.  A step *)
(* of a thread is the code between two accesses to the task record.  Files *)
(* are records naming the chunk results they were built from and how many  *)
(* post-processing passes their text went through.                         *)

MaxRetries == 1

\* the conversions run: the body after the table of contents, the numbered
\* headings of that table, the chunking options, and the options of the
\* fidelity guard, of the table of contents and of strict_mode.  The first
\* runs with the defaults (guard from 20 tokens, rule-based table of
\* contents, strict_mode on) and gives three jobs of one section; the second
\* gives two jobs of the flat strategy, has no table of contents in its
\* source (so the structure is asked from the backend), guards from one
\* token and asks the backend for the table of contents; the third is one
\* job of the flat strategy whose table of contents names a heading the
\* body does not have, so that the final validation fails, and runs with
\* and without allow_partial_on_validation_failure
PipelineDocs ==
    { [body     |-> <<HeadLine(1, <<>>, 1), HeadLine(2, <<>>, 2), Text(1)>>,
       expected |-> <<Heading(<<1>>, 1)>>, size |-> 5, strategy |-> "section",
       content_guard_min_tokens |-> 20, ai_toc |-> FALSE, strict_mode |-> TRUE,
       allow_partial_on_validation_failure |-> {TRUE}],
      [body     |-> <<Text(1), Text(2)>>,
       expected |-> <<>>, size |-> 5, strategy |-> "flat",
       content_guard_min_tokens |-> 1, ai_toc |-> TRUE, strict_mode |-> FALSE,
       allow_partial_on_validation_failure |-> {TRUE}],
      [body     |-> <<Text(1)>>,
       expected |-> <<Heading(<<1>>, 1)>>, size |-> 5, strategy |-> "flat",
       content_guard_min_tokens |-> 20, ai_toc |-> FALSE, strict_mode |-> TRUE,
       allow_partial_on_validation_failure |-> BOOLEAN] }

\* the texts the backend answers with, besides repeating the chunk it was given
LLMTexts ==
    { <<Text(1)>>,
      <<HeadLine(2, <<1>>, 1)>>,
      <<HeadLine(3, <<>>, 1), Text(1)>>,
      <<MdFence, Text(1), Fence>>,
      <<Hash, Text(1)>>,
      <<Blank>>,
      <<Fence, HeadLine(2, <<>>, 2), Fence, Text(1)>>,
      <<HeadLine(2, <<1>>, 1), HeadLine(3, <<1, 1>>, 2)>> }

\* chat_with_meta: the answers to the request for one chunk; `truncated` is
\* finish_reason in {"length", "max_tokens"}
LLMResponses(job) ==
    {[content |-> c, truncated |-> FALSE] : c \in LLMTexts \cup {job.content}}
        \cup {[content |-> <<Text(1)>>, truncated |-> TRUE]}

\* the configuration of a conversion: the retry budget and the fallback
\* switch vary freely; generate_toc keeps its default
Configs(d) ==
    { [max_chunk_retries                   |-> r,
       allow_partial_on_chunk_failure      |-> a,
       content_guard_min_tokens            |-> d.content_guard_min_tokens,
       generate_toc                        |-> TRUE,
       deterministic_toc                   |-> ~d.ai_toc,
       strict_mode                         |-> d.strict_mode,
       allow_partial_on_validation_failure |-> w] :
        r \in 0..MaxRetries, a \in BOOLEAN, w \in d.allow_partial_on_validation_failure }

NoFile == [exists |-> FALSE]
NoExc  == [kind |-> "none"]

InitTask ==
    /\ pc = "queued"
    /\ \E d \in PipelineDocs :
          /\ content_body = d.body
          /\ expected_headings = d.expected
          /\ chunk_size = d.size
          /\ chunk_strategy = d.strategy
          /\ cfg \in Configs(d)
    /\ chunk_jobs = <<>>
    /\ markdown = <<Blank>>
    /\ status = "queued"
    /\ stop_requested = FALSE
    /\ output_file = NoFile
    /\ spc = "idle"
    /\ stop_at = -1
    /\ attempt = 0
    /\ last_error = ""
    /\ results = <<>>
    /\ preview = NoFile
    /\ exc = NoExc
    /\ llm_calls = 0
    /\ chunk_calls = 0
    /\ stop_seen = FALSE
    /\ chunk_fallback_count = 0
    /\ validation_warning = {}
    /\ usage = [returned |-> FALSE]
    /\ events = <<>>
    /\ final_doc = [exists |-> FALSE]
    /\ NoCall

(* server.stop_task *)

\* the worker is inside the chunk loop of convert (lines 305-389)
InChunkLoop == pc \in {"check_chunk", "check_attempt", "check_call", "llm_call"}

\* a request arrives (any number of requests may follow one another);
\* lines 431-439: _require_task and the two tests of
\* task.status (answer "stopped", or refuse with 409 once completed or failed)
StopTaskReadsStatus ==
    /\ spc = "idle"
    /\ spc' = IF status \in {"stopped", "completed", "failed"} THEN "idle" ELSE "read_flag"
    /\ UNCHANGED <<pc, planVars, taskVars, stop_at, workVars>>
    /\ UNCHANGED <<runVars, callVars>>

\* lines 440-445: the test of task.stop_requested
StopTaskReadsFlag ==
    /\ spc = "read_flag"
    /\ spc' = IF stop_requested THEN "idle" ELSE "write"
    /\ UNCHANGED <<pc, planVars, taskVars, stop_at, workVars>>
    /\ UNCHANGED <<runVars, callVars>>

\* lines 447-453: _update_task(status="stopping", stop_requested=True)
StopTaskWrites ==
    /\ spc = "write"
    /\ status' = "stopping"
    /\ stop_requested' = TRUE
    /\ spc' = "idle"
    /\ stop_at' = IF InChunkLoop /\ stop_at = -1 THEN Len(results) ELSE stop_at
    /\ UNCHANGED <<pc, planVars, output_file, workVars>>
    /\ UNCHANGED <<runVars, callVars>>

(* server._run_task and Doc2MDAgent.convert *)

MAX_TASK_EVENTS == 2000

\* the record of an event: its type and, for the events of a chunk or of a
\* backend call, the chunk index or the operation
Event(type, detail) == [type |-> type, detail |-> detail]

\* an event list without limit
_append_task_event_Unbounded(task_events, event) == Append(task_events, event)

\* server._append_task_event: append, and keep the last MAX_TASK_EVENTS
_append_task_event(task_events, event) ==
    LET appended == Append(task_events, event)
    IN  IF Len(appended) > MAX_TASK_EVENTS
        THEN SubSeq(appended, Len(appended) - MAX_TASK_EVENTS + 1, Len(appended))
        ELSE appended

RECURSIVE AppendEvents(_, _)
\* _append_task_event for each event of a list, in order
AppendEvents(task_events, new_events) ==
    IF new_events = <<>> THEN task_events
    ELSE AppendEvents(_append_task_event(task_events, Head(new_events)), Tail(new_events))

\* server._on_progress: the "progress" event recorded for one call
\* progress_callback(stage, current, total, message)
Progress(stage, current, total) == Event("progress", <<stage, current, total>>)

\* a report that counts the chunk just completed twice
ProgressAfterChunk_CountsTwice(i, total_chunks) == Progress("convert", i + 2, total_chunks)

\* convert, lines 383-389: the report after chunk i + 1 of the loop
\* `for i, job in enumerate(chunk_jobs)`
ProgressAfterChunk(i, total_chunks) == Progress("convert", i + 1, total_chunks)

\* a post-processing that asks the backend whenever the configuration does
TocPath_IgnoreAllowAiToc(generate_toc, deterministic_toc, allow_ai_toc) ==
    IF ~generate_toc THEN "none"
    ELSE IF ~deterministic_toc THEN "ai" ELSE "simple"

\* _postprocess_markdown, lines 609-615: how the table of contents is made
TocPath(generate_toc, deterministic_toc, allow_ai_toc) ==
    IF ~generate_toc THEN "none"
    ELSE IF allow_ai_toc /\ ~deterministic_toc THEN "ai" ELSE "simple"

\* the points at which _check_stop is called, in the order of convert
CheckPoints ==
    {"check_start", "check_before_extract", "check_after_extract", "check_after_structure",
     "check_analyze", "check_convert_phase", "check_chunk", "check_attempt", "check_call",
     "check_after_chunks", "check_postprocess", "check_toc", "check_generate_toc",
     "check_validation"}

\* what follows each _check_stop that does not raise
NextPoint(p) ==
    CASE p = "check_start"           -> "check_before_extract"     \* line 119
      [] p = "check_before_extract"  -> "extract"                  \* line 151
      [] p = "check_after_extract"   -> "check_after_structure"    \* line 153
      [] p = "check_after_structure" ->                            \* line 215
            IF expected_headings = <<>> THEN "check_analyze" ELSE "check_convert_phase"
      [] p = "check_analyze"         -> "analyze_call"             \* line 1890
      [] p = "check_convert_phase"   -> "plan"                     \* line 251
      [] p = "check_chunk"           -> "check_attempt"            \* line 306
      [] p = "check_attempt"         -> "check_call"               \* line 1655
      [] p = "check_call"            -> "llm_call"                 \* line 1937
      [] p = "check_after_chunks"    -> "check_postprocess"        \* line 391
      [] p = "check_postprocess"     ->                            \* line 407
            IF TocPath(cfg.generate_toc, cfg.deterministic_toc, TRUE) = "ai"
            THEN "check_toc" ELSE "finish_postprocess"
      [] p = "check_toc"             -> "check_generate_toc"       \* line 612
      [] p = "check_generate_toc"    -> "toc_call"                 \* line 2062
      [] p = "check_validation"      -> "validate"                 \* line 433

\* the progress reports convert makes between a _check_stop that did not
\* raise and the next step of the model: lines 143 and 150 after the check of
\* line 119, lines 154-211 after that of line 153, line 239 after that of
\* line 215 when the structure is not asked from the backend, line 336 after
\* that of line 306, line 610 after that of line 407
ProgressAfterCheck(p) ==
    CASE p = "check_start" ->
            <<Progress("preprocess", 0, 4), Progress("preprocess", 1, 4)>>
      [] p = "check_after_extract" ->
            <<Progress("preprocess", 2, 4), Progress("preprocess", 3, 4),
              Progress("preprocess", 4, 4), Progress("analyze", 0, 1)>>
      [] p = "check_after_structure" ->
            IF expected_headings = <<>> THEN <<>> ELSE <<Progress("analyze", 1, 1)>>
      [] p = "check_chunk" ->
            <<Progress("convert", Len(results), Len(chunk_jobs))>>
      [] p = "check_postprocess" ->
            IF cfg.generate_toc THEN <<Progress("toc", 0, 1)>> ELSE <<>>
      [] OTHER -> <<>>

\* a check that notices the stop request and carries on
AfterCheck_Continue(observed, next) == next

\* _check_stop: raise TaskStoppedError, caught by _run_task, or carry on
AfterCheck(observed, next) == IF observed THEN "handle_stopped" ELSE next

\* a retry loop that allows one attempt more
HasAttemptsLeft_OneMore(attempts_made, max_chunk_retries) == attempts_made <= max_chunk_retries + 1

\* `for attempt in range(self.max_chunk_retries + 1)`: another round follows
HasAttemptsLeft(attempts_made, max_chunk_retries) == attempts_made < max_chunk_retries + 1

\* line 1685: retry_reason = last_error if attempt > 0 else ""; _convert_chunk
\* adds it to the prompt when it is not empty (lines 1951-1952)
RetryReason(attempts_made, err) == IF attempts_made > 0 THEN err ELSE ""

\* a loop that numbers its attempts from zero
AttemptNo_ZeroBased(attempts_made) == attempts_made

\* a loop that remembers the first failure of the chunk
LastErrorAfter_KeepFirst(err, reason) == IF err # "" THEN err ELSE reason

\* line 1789: last_error = reason
LastErrorAfter(err, reason) == reason

\* line 1656: attempt_no = attempt + 1
AttemptNo(attempts_made) == attempts_made + 1

\* lines 1798-1813: the event of a failed validation, with the chunk and the
\* number of the attempt (its reason is not kept in the record)
ChunkValidationFailed(chunk_index, attempt_no) ==
    Event("chunk_validation_failed", <<chunk_index, attempt_no>>)

\* a fallback that keeps the outcome of its own validation to itself
FallbackValidationReason_Dropped(reason) == ""

\* lines 1865-1866: fallback_meta["fallback_validation_reason"], set when
\* the fallback text is not valid ("" stands for the missing key)
FallbackValidationReason(reason) == IF reason = "ok" THEN "" ELSE reason

\* a fallback that reports a fixed reason
FallbackReason_Generic(err) == "max_retries_reached"

\* `last_error or "达到最大重试次数"`
FallbackReason(err) == IF err # "" THEN err ELSE "max_retries_reached"

\* a transformer that falls back whatever the configuration says
RaisesOnExhaustion_Never(allow_partial_on_chunk_failure) == FALSE

\* `if not self.allow_partial_on_chunk_failure: raise RuntimeError(...)`
RaisesOnExhaustion(allow_partial_on_chunk_failure) == ~allow_partial_on_chunk_failure

\* _resolve_section_label: the heading of the section, or its id
SectionLabel(job) ==
    IF job.section_heading # NoHeading THEN <<"heading", job.section_heading>>
    ELSE job.section_id

Texts(rs) == [i \in 1..Len(rs) |-> rs[i].text]

RECURSIVE JoinChunks(_)
\* "\n\n".join(converted_chunks)
JoinChunks(texts) ==
    IF texts = <<>> THEN <<Blank>>
    ELSE IF Len(texts) = 1 THEN texts[1]
    ELSE texts[1] \o <<Blank>> \o JoinChunks(Tail(texts))

\* _postprocess_markdown up to the table of contents, for texts made of the
\* lines of this model: of its repair passes only the heading levels act
PostprocessedBody(converted_chunks) ==
    _normalize_numbered_heading_levels(JoinChunks(converted_chunks))

\* _generate_toc, lines 2063-2074: the headings ^#{2,6}\s+ of the document
\* (fences are not looked at); without any the backend is not called
HasTocHeadings(full_md) ==
    \E i \in 1..Len(full_md) : full_md[i].t = "head" /\ full_md[i].lvl \in 2..6

\* postprocess_partial_markdown, lines 514-525: _postprocess_markdown with
\* allow_ai_toc=False.  should_stop is what the stop checker answers; the
\* result tells whether _check_stop raised TaskStoppedError (line 612 or
\* 2062) and how many backend calls were made (line 2080)
postprocess_partial_markdown(generate_toc, deterministic_toc, should_stop, converted_chunks) ==
    LET path == TocPath(generate_toc, deterministic_toc, FALSE)
    IN  [stopped   |-> path = "ai" /\ should_stop,
         llm_calls |-> IF path = "ai" /\ ~should_stop
                          /\ HasTocHeadings(PostprocessedBody(converted_chunks))
                       THEN 1 ELSE 0,
         text      |-> PostprocessedBody(converted_chunks)]

\* _build_partial_preview_markdown, lines 495-512: nothing is post-processed
\* when the joined text is blank, and an exception of the post-processing
\* (TaskStoppedError is a RuntimeError) is caught
_build_partial_preview_markdown(generate_toc, deterministic_toc, should_stop, converted_chunks) ==
    LET p == postprocess_partial_markdown(generate_toc, deterministic_toc, should_stop,
                                          converted_chunks)
    IN  IF IsBlankText(JoinChunks(converted_chunks))
        THEN [stopped |-> FALSE, llm_calls |-> 0, text |-> <<Blank>>]
        ELSE [stopped   |-> FALSE,
              llm_calls |-> p.llm_calls,
              text      |-> IF p.stopped THEN JoinChunks(converted_chunks) ELSE p.text]

\* a preview that misses the chunk just converted
PartialPreview_DropLast(converted_chunks, postprocess_ok) ==
    [exists |-> TRUE,
     chunks |-> SubSeq(converted_chunks, 1, Len(converted_chunks) - 1),
     passes |-> IF postprocess_ok THEN 1 ELSE 0,
     empty  |-> IsBlankText(JoinChunks(converted_chunks))]

\* _build_partial_preview_markdown written to the preview file: the joined
\* results, post-processed unless the post-processing raises; the empty
\* string when the joined text is blank
PartialPreview(converted_chunks, postprocess_ok) ==
    [exists |-> TRUE,
     chunks |-> converted_chunks,
     passes |-> IF postprocess_ok /\ ~IsBlankText(JoinChunks(converted_chunks)) THEN 1 ELSE 0,
     empty  |-> IsBlankText(JoinChunks(converted_chunks))]

\* _ensure_partial_output_file with the agent at hand: None without a
\* non-blank preview, else the preview post-processed once more (the text
\* is kept as it is when that raises) and written to <stem>.partial.md
_ensure_partial_output_file(preview_file, postprocess_ok) ==
    IF ~preview_file.exists THEN NoFile
    ELSE IF preview_file.empty THEN NoFile
    ELSE [exists |-> TRUE,
          kind   |-> "partial",
          chunks |-> preview_file.chunks,
          passes |-> preview_file.passes + (IF postprocess_ok THEN 1 ELSE 0)]

\* lines 267-274: load the configuration, then the first test of the stop flag
RunTaskStarts ==
    /\ pc = "queued"
    /\ pc' = IF stop_requested THEN "handle_stopped" ELSE "set_running"
    /\ UNCHANGED <<planVars, taskVars, stopVars, workVars>>
    /\ UNCHANGED <<runVars, callVars>>

\* lines 276-285: _update_task(status="running", ...)
RunTaskSetsRunning ==
    /\ pc = "set_running"
    /\ status' = "running"
    /\ pc' = "check_start"
    /\ UNCHANGED <<planVars, stop_requested, output_file, stopVars, workVars>>
    /\ UNCHANGED <<runVars, callVars>>

\* _check_stop at any of its call sites; entering _convert_chunk_with_retry
\* (after the check of line 306) sets last_error = "" and starts the loop
CheckStop ==
    /\ pc \in CheckPoints
    /\ stop_seen' = (stop_seen \/ stop_requested)
    /\ pc' = AfterCheck(stop_requested, NextPoint(pc))
    /\ IF pc = "check_chunk" /\ pc' = "check_attempt"
       THEN attempt' = 0 /\ last_error' = "" /\ chunk_calls' = 0
       ELSE UNCHANGED <<attempt, last_error, chunk_calls>>
    /\ events' = IF stop_requested
                 THEN _append_task_event(events, Event("task_stop_detected", 0))
                 ELSE IF pc = "check_chunk"
                 THEN AppendEvents(events, <<Event("chunk_started", Len(results) + 1)>>
                                               \o ProgressAfterCheck(pc))
                 ELSE IF pc = "check_validation"
                 THEN _append_task_event(events, Event("validation_started", 0))
                 ELSE AppendEvents(events, ProgressAfterCheck(pc))
    /\ UNCHANGED <<planVars, taskVars, stopVars, cfg, results, preview, exc, llm_calls>>
    /\ UNCHANGED <<chunk_fallback_count, validation_warning, usage, final_doc, callVars>>

\* preprocessor.extract (line 152): returns the raw text or raises
Extract ==
    /\ pc = "extract"
    /\ \/ pc' = "check_after_extract" /\ exc' = exc
       \/ pc' = "handle_failed" /\ exc' = [kind |-> "extract"]
    /\ UNCHANGED <<planVars, taskVars, stopVars, cfg, attempt, last_error, results, preview,
                   llm_calls, chunk_calls, stop_seen>>
    /\ UNCHANGED <<runVars, callVars>>

\* what becomes of an exception of the backend call of an operation:
\* _convert_chunk (line 1954) has no handler around the call, _analyze_structure
\* (lines 1893-1918) goes on with the default structure and _generate_toc
\* (lines 2076-2094) with the simple table of contents
OnBackendError_Raise(operation) == "raise"

OnBackendError(operation) ==
    CASE operation = "convert_chunk"     -> "raise"
      [] operation = "analyze_structure" -> "default_structure"
      [] operation = "generate_toc"      -> "simple_toc"

\* chat_with_meta raises inside an operation: llm_provider.py lines 237-255
\* emit llm_call_failed and re-raise; the operation handles it or not
BackendCallRaises(operation, next) ==
    /\ llm_calls' = llm_calls + 1
    /\ IF OnBackendError(operation) = "raise"
       THEN /\ exc' = [kind |-> "backend"]
            /\ pc' = "handle_failed"
            /\ events' = _append_task_event(events, Event("llm_call_failed", operation))
       ELSE /\ exc' = exc
            /\ pc' = next
            /\ events' =
                  IF OnBackendError(operation) = "simple_toc"
                  THEN _append_task_event(
                           _append_task_event(events, Event("llm_call_failed", operation)),
                           Event("toc_fallback", 0))
                  ELSE AppendEvents(events, <<Event("llm_call_failed", operation),
                                              Progress("analyze", 1, 1)>>)

\* _analyze_structure, lines 1893-1918: one backend call; its answer only
\* fills the prompt's structure; convert reports the end of the analysis
\* (line 239)
AnalyzeStructure ==
    /\ pc = "analyze_call"
    /\ llm_calls' = llm_calls + 1
    /\ pc' = "check_convert_phase"
    /\ events' = _append_task_event(events, Progress("analyze", 1, 1))
    /\ UNCHANGED <<planVars, taskVars, stopVars, cfg, attempt, last_error, results, preview,
                   exc, chunk_calls, stop_seen>>
    /\ UNCHANGED <<chunk_fallback_count, validation_warning, usage, final_doc, callVars>>

\* _analyze_structure, lines 1893-1918: the backend call raises
AnalyzeStructureRaises ==
    /\ pc = "analyze_call"
    /\ BackendCallRaises("analyze_structure", "check_convert_phase")
    /\ UNCHANGED <<planVars, taskVars, stopVars, cfg, attempt, last_error, results, preview,
                   chunk_calls, stop_seen>>
    /\ UNCHANGED <<chunk_fallback_count, validation_warning, usage, final_doc, callVars>>

\* lines 253-279: build the job list and create the empty preview file
PlanTask ==
    /\ pc = "plan"
    /\ LET r == PlanJobs(content_body, expected_headings, chunk_size, chunk_strategy)
       IN  IF r.raised \/ r.jobs = <<>>
           THEN /\ pc' = "handle_failed"
                /\ exc' = [kind |-> IF r.raised THEN "index_error" ELSE "no_chunks"]
                /\ UNCHANGED <<chunk_jobs, preview>>
           ELSE /\ pc' = "check_chunk"
                /\ chunk_jobs' = r.jobs
                /\ preview' = [exists |-> TRUE, chunks |-> <<>>, passes |-> 0, empty |-> TRUE]
                /\ exc' = exc
    /\ UNCHANGED <<content_body, expected_headings, chunk_size, chunk_strategy, markdown,
                   taskVars, stopVars, cfg, attempt, last_error, results, llm_calls,
                   chunk_calls, stop_seen>>
    /\ UNCHANGED <<runVars, callVars>>

(* Doc2MDAgent._convert_chunk_with_retry: one round of the loop, from the    *)
(* backend call of _convert_chunk to the end of the round                  *)

\* the job being converted: i + 1 of `for i, job in enumerate(chunk_jobs)`
CurrentJob == chunk_jobs[Len(results) + 1]

\* a loop that ends after its first round
AfterChunk_EndLoop(converted_chunks) == "check_after_chunks"

\* convert, lines 359-389, after a chunk result was returned
AfterChunk(converted_chunks) ==
    IF Len(converted_chunks) < Len(chunk_jobs) THEN "check_chunk" ELSE "check_after_chunks"

\* chat_with_meta raises (it re-raises what the backend raised); nothing
\* between the call and _run_task catches it
BackendRaises ==
    /\ pc = "llm_call"
    /\ BackendCallRaises("convert_chunk", "llm_call")
    /\ chunk_calls' = chunk_calls + 1
    /\ UNCHANGED <<planVars, taskVars, stopVars, cfg, attempt, last_error, results, preview,
                   stop_seen>>
    /\ UNCHANGED <<chunk_fallback_count, validation_warning, usage, final_doc, callVars>>

\* lines 1776-1787 and 359-361: the answer passes validation
AttemptAccepted ==
    /\ pc = "llm_call"
    /\ \E r \in LLMResponses(CurrentJob), postprocess_ok \in BOOLEAN :
          \E v \in {NormalizeAndValidate(CurrentJob, r.content, r.truncated,
                                         cfg.content_guard_min_tokens)} :
              /\ v.reason = "ok"
              /\ results' = Append(results, [text            |-> v.converted,
                                             attempts_used   |-> AttemptNo(attempt),
                                             fallback_used   |-> FALSE,
                                             fallback_reason |-> "",
                                             fallback_validation_reason |-> ""])
              /\ preview' = PartialPreview(Texts(results'), postprocess_ok)
              /\ pc' = AfterChunk(results')
    /\ events' = AppendEvents(events, <<Event("chunk_completed", Len(results) + 1),
                                        ProgressAfterChunk(Len(results), Len(chunk_jobs))>>)
    /\ llm_calls' = llm_calls + 1
                      + _build_partial_preview_markdown(
                            cfg.generate_toc, cfg.deterministic_toc, stop_requested,
                            Texts(results')).llm_calls
    /\ chunk_calls' = chunk_calls + 1
    /\ UNCHANGED <<planVars, taskVars, stopVars, cfg, attempt, last_error, exc, stop_seen>>
    /\ UNCHANGED <<chunk_fallback_count, validation_warning, usage, final_doc, callVars>>

\* lines 1789-1813: the answer fails validation and another round follows
AttemptRejectedRetries ==
    /\ pc = "llm_call"
    /\ HasAttemptsLeft(attempt + 1, cfg.max_chunk_retries)
    /\ \E r \in LLMResponses(CurrentJob) :
          \E v \in {NormalizeAndValidate(CurrentJob, r.content, r.truncated,
                                         cfg.content_guard_min_tokens)} :
              /\ v.reason # "ok"
              /\ last_error' = LastErrorAfter(last_error, v.reason)
              /\ events' = _append_task_event(
                                events, ChunkValidationFailed(Len(results) + 1,
                                                              AttemptNo(attempt)))
    /\ attempt' = attempt + 1
    /\ llm_calls' = llm_calls + 1
    /\ chunk_calls' = chunk_calls + 1
    /\ pc' = "check_attempt"
    /\ UNCHANGED <<planVars, taskVars, stopVars, cfg, results, preview, exc, stop_seen>>
    /\ UNCHANGED <<chunk_fallback_count, validation_warning, usage, final_doc, callVars>>

\* lines 1815-1820: the last answer fails validation and the transformer raises
AttemptRejectedFails ==
    /\ pc = "llm_call"
    /\ ~HasAttemptsLeft(attempt + 1, cfg.max_chunk_retries)
    /\ RaisesOnExhaustion(cfg.allow_partial_on_chunk_failure)
    /\ \E r \in LLMResponses(CurrentJob) :
          \E v \in {NormalizeAndValidate(CurrentJob, r.content, r.truncated,
                                         cfg.content_guard_min_tokens)} :
              /\ v.reason # "ok"
              /\ last_error' = LastErrorAfter(last_error, v.reason)
              /\ events' = _append_task_event(
                                events, ChunkValidationFailed(Len(results) + 1,
                                                              AttemptNo(attempt)))
              /\ exc' = [kind        |-> "chunk_failed",
                         chunk_index |-> Len(results) + 1,
                         section     |-> SectionLabel(CurrentJob),
                         attempts    |-> cfg.max_chunk_retries + 1,
                         reason      |-> last_error']
    /\ attempt' = attempt + 1
    /\ llm_calls' = llm_calls + 1
    /\ chunk_calls' = chunk_calls + 1
    /\ pc' = "handle_failed"
    /\ UNCHANGED <<planVars, taskVars, stopVars, cfg, results, preview, stop_seen>>
    /\ UNCHANGED <<chunk_fallback_count, validation_warning, usage, final_doc, callVars>>

\* lines 1822-1886 and 359-361: the last answer fails validation and the
\* result is built from the source chunk, valid or not
AttemptRejectedFallsBack ==
    /\ pc = "llm_call"
    /\ ~HasAttemptsLeft(attempt + 1, cfg.max_chunk_retries)
    /\ ~RaisesOnExhaustion(cfg.allow_partial_on_chunk_failure)
    /\ \E r \in LLMResponses(CurrentJob), postprocess_ok \in BOOLEAN :
          \E v \in {NormalizeAndValidate(CurrentJob, r.content, r.truncated,
                                         cfg.content_guard_min_tokens)},
             f \in {FallbackFromSource(CurrentJob, cfg.content_guard_min_tokens)} :
              /\ v.reason # "ok"
              /\ last_error' = LastErrorAfter(last_error, v.reason)
              /\ results' = Append(results, [text            |-> f.converted,
                                             attempts_used   |-> cfg.max_chunk_retries + 1,
                                             fallback_used   |-> TRUE,
                                             fallback_reason |-> FallbackReason(last_error'),
                                             fallback_validation_reason |->
                                                 FallbackValidationReason(f.reason)])
              /\ preview' = PartialPreview(Texts(results'), postprocess_ok)
              /\ pc' = AfterChunk(results')
              /\ events' = AppendEvents(
                                events,
                                <<ChunkValidationFailed(Len(results) + 1, AttemptNo(attempt)),
                                  Event("chunk_completed", Len(results) + 1),
                                  ProgressAfterChunk(Len(results), Len(chunk_jobs))>>)
    /\ chunk_fallback_count' = chunk_fallback_count + 1
    /\ attempt' = attempt + 1
    /\ llm_calls' = llm_calls + 1
                      + _build_partial_preview_markdown(
                            cfg.generate_toc, cfg.deterministic_toc, stop_requested,
                            Texts(results')).llm_calls
    /\ chunk_calls' = chunk_calls + 1
    /\ UNCHANGED <<planVars, taskVars, stopVars, cfg, exc, stop_seen>>
    /\ UNCHANGED <<validation_warning, usage, final_doc, callVars>>

(* the end of convert and the three outcomes of _run_task *)

\* _generate_toc, lines 2076-2094: the backend call for the table of
\* contents raises
GenerateTocRaises ==
    /\ pc = "toc_call"
    /\ HasTocHeadings(PostprocessedBody(Texts(results)))
    /\ BackendCallRaises("generate_toc", "finish_postprocess")
    /\ UNCHANGED <<planVars, taskVars, stopVars, cfg, attempt, last_error, results, preview,
                   chunk_calls, stop_seen>>
    /\ UNCHANGED <<chunk_fallback_count, validation_warning, usage, final_doc, callVars>>

\* _generate_toc, lines 2063-2083: the backend call for the table of
\* contents, made when the document has headings
GenerateToc ==
    /\ pc = "toc_call"
    /\ llm_calls' = IF HasTocHeadings(PostprocessedBody(Texts(results)))
                    THEN llm_calls + 1 ELSE llm_calls
    /\ pc' = "finish_postprocess"
    /\ UNCHANGED <<planVars, taskVars, stopVars, cfg, attempt, last_error, results, preview,
                   exc, chunk_calls, stop_seen>>
    /\ UNCHANGED <<runVars, callVars>>

\* lines 417-430: the table of contents is inserted (line 617 reports it)
\* and the post-processed document replaces the preview
FinishPostprocess ==
    /\ pc = "finish_postprocess"
    /\ markdown' = PostprocessedBody(Texts(results))
    /\ preview' = [exists |-> TRUE, chunks |-> Texts(results), passes |-> 1,
                   empty  |-> IsBlankText(markdown')]
    /\ events' = IF cfg.generate_toc
                 THEN _append_task_event(events, Progress("toc", 1, 1))
                 ELSE events
    /\ pc' = IF cfg.strict_mode THEN "check_validation" ELSE "write_output"
    /\ UNCHANGED <<content_body, expected_headings, chunk_size, chunk_strategy, chunk_jobs,
                   taskVars, stopVars, cfg, attempt, last_error, results, exc, llm_calls,
                   chunk_calls, stop_seen>>
    /\ UNCHANGED <<chunk_fallback_count, validation_warning, usage, final_doc, callVars>>

\* a summary that calls degraded only the runs with a fallback chunk
Degraded_FallbackOnly(fallback_count, warning) == fallback_count # 0

\* line 465: bool(chunk_fallback_count or validation_warning)
Degraded(fallback_count, warning) == fallback_count # 0 \/ warning # {}

\* a validation whose failure is always an error
RaisesOnValidationFailure_Always(allow_partial_on_validation_failure) == TRUE

\* line 439: `if not self.allow_partial_on_validation_failure: raise`
RaisesOnValidationFailure(allow_partial_on_validation_failure) ==
    ~allow_partial_on_validation_failure

\* lines 434-447: the final validation; its error is raised or recorded
ValidateFinalOutput ==
    /\ pc = "validate"
    /\ LET issues == _validate_final_output(content_body, markdown, expected_headings)
       IN  IF issues = {}
           THEN /\ events' = _append_task_event(events, Event("validation_passed", 0))
                /\ pc' = "write_output"
                /\ UNCHANGED <<exc, validation_warning>>
           ELSE IF RaisesOnValidationFailure(cfg.allow_partial_on_validation_failure)
           THEN /\ exc' = [kind |-> "validation_failed", issues |-> issues]
                /\ pc' = "handle_failed"
                /\ UNCHANGED <<events, validation_warning>>
           ELSE /\ validation_warning' = issues
                /\ events' = _append_task_event(
                                  events, Event("validation_warning", validation_warning'))
                /\ pc' = "write_output"
                /\ exc' = exc
    /\ UNCHANGED <<planVars, taskVars, stopVars, cfg, attempt, last_error, results, preview,
                   llm_calls, chunk_calls, stop_seen>>
    /\ UNCHANGED <<chunk_fallback_count, usage, final_doc, callVars>>

\* lines 449-466: the output file, the usage summary convert returns and
\* the last progress report
ConvertReturns ==
    /\ events' = _append_task_event(events, Progress("done", 1, 1))
    /\ final_doc' = [exists |-> TRUE, chunks |-> Texts(results), text |-> markdown]
    /\ usage' = [returned           |-> TRUE,
                 chunk_fallbacks    |-> chunk_fallback_count,
                 validation_warning |-> validation_warning,
                 degraded           |-> Degraded(chunk_fallback_count, validation_warning)]

\* convert returns, the archive is built, and lines 310-328 write the outcome
TaskCompletes ==
    /\ pc = "write_output"
    /\ ConvertReturns
    /\ status' = "completed"
    /\ stop_requested' = FALSE
    /\ output_file' = [exists |-> TRUE, kind |-> "final", chunks |-> Texts(results), passes |-> 1]
    /\ pc' = "done"
    /\ UNCHANGED <<planVars, stopVars, workVars>>
    /\ UNCHANGED <<chunk_fallback_count, validation_warning, callVars>>

\* _build_task_archive raises after convert returned
CompletionArchiveFails ==
    /\ pc = "write_output"
    /\ ConvertReturns
    /\ exc' = [kind |-> "archive"]
    /\ pc' = "handle_failed"
    /\ UNCHANGED <<planVars, taskVars, stopVars, cfg, attempt, last_error, results, preview,
                   llm_calls, chunk_calls, stop_seen>>
    /\ UNCHANGED <<chunk_fallback_count, validation_warning, callVars>>

\* lines 335-363, `except TaskStoppedError`: package what the preview holds
TaskStops ==
    /\ pc = "handle_stopped"
    /\ \E postprocess_ok \in BOOLEAN :
          output_file' = _ensure_partial_output_file(preview, postprocess_ok)
    /\ status' = "stopped"
    /\ stop_requested' = FALSE
    /\ pc' = "done"
    /\ UNCHANGED <<planVars, stopVars, workVars>>
    /\ UNCHANGED <<runVars, callVars>>

\* _build_task_archive raises inside the handler of TaskStoppedError: the
\* exception leaves _run_task and the thread ends without writing a status
StoppedArchiveFails ==
    /\ pc = "handle_stopped"
    /\ pc' = "crashed"
    /\ UNCHANGED <<planVars, taskVars, stopVars, workVars>>
    /\ UNCHANGED <<runVars, callVars>>

\* lines 370-380, `except Exception`
TaskFails ==
    /\ pc = "handle_failed"
    /\ status' = "failed"
    /\ stop_requested' = FALSE
    /\ pc' = "done"
    /\ UNCHANGED <<planVars, output_file, stopVars, workVars>>
    /\ UNCHANGED <<runVars, callVars>>

Init == InitTask

Next ==
    \/ StopTaskReadsStatus
    \/ StopTaskReadsFlag
    \/ StopTaskWrites
    \/ RunTaskStarts
    \/ RunTaskSetsRunning
    \/ CheckStop
    \/ Extract
    \/ AnalyzeStructure
    \/ AnalyzeStructureRaises
    \/ PlanTask
    \/ BackendRaises
    \/ AttemptAccepted
    \/ AttemptRejectedRetries
    \/ AttemptRejectedFails
    \/ AttemptRejectedFallsBack
    \/ GenerateTocRaises
    \/ GenerateToc
    \/ ValidateFinalOutput
    \/ FinishPostprocess
    \/ TaskCompletes
    \/ CompletionArchiveFails
    \/ TaskStops
    \/ StoppedArchiveFails
    \/ TaskFails

Spec == Init /\ [][Next]_vars

-----------------------------------------------------------------------------
(* Properties of the chunk transformer and of cancellation *)

\* the reasons with which _validate_chunk_output rejects an output
RejectionReasons ==
    {"truncated", "empty", "continuation_has_heading_lines", "continuation_has_numbered_heading",
     "numbered_heading_not_allowed_here", "heading_not_allowed", "too_many_headings",
     "heading_level_mismatch", "missing_required_heading", "token_coverage_too_low",
     "char_ratio_too_low"}

\* a chunk result was just returned to convert
ChunkJustReturned == pc \in {"check_chunk", "check_after_chunks"} /\ results # <<>>

LastResult == results[Len(results)]

\* C1: for every chunk job the transformer starts at most max_chunk_retries + 1
\* backend calls, one per attempt, before it accepts, falls back or fails
\* hard, and the attempts_used of a chunk result is the number of these calls
\* and never exceeds max_chunk_retries + 1
C1_AttemptsWithinBudget ==
    /\ chunk_calls <= cfg.max_chunk_retries + 1
    /\ \A i \in 1..Len(results) : results[i].attempts_used \in 1..(cfg.max_chunk_retries + 1)
    /\ ChunkJustReturned => LastResult.attempts_used = chunk_calls
    /\ exc.kind = "chunk_failed" => chunk_calls = cfg.max_chunk_retries + 1

\* a result accepted at the last attempt of a budget with a retry
C1_Witness ==
    /\ cfg.max_chunk_retries >= 1
    /\ ChunkJustReturned
    /\ ~LastResult.fallback_used
    /\ LastResult.attempts_used = cfg.max_chunk_retries + 1

\* C2: when every attempt of a chunk fails validation and
\* allow_partial_on_chunk_failure is on, the transformer does not raise: the
\* result is built from the source chunk, has fallback_used, carries as
\* fallback_reason the validation reason of the last failed attempt, and the
\* conversion goes on with the next chunk
C2_FallbackOnExhaustion ==
    /\ \A i \in 1..Len(results) :
          results[i].fallback_used =>
             /\ cfg.allow_partial_on_chunk_failure
             /\ results[i].fallback_reason \in RejectionReasons
             /\ results[i].text =
                   FallbackFromSource(chunk_jobs[i], cfg.content_guard_min_tokens).converted
    /\ (ChunkJustReturned /\ LastResult.fallback_used) =>
          /\ LastResult.fallback_reason = last_error
          /\ exc = NoExc
    /\ cfg.allow_partial_on_chunk_failure => exc.kind # "chunk_failed"

\* a fallback result followed by the result of the next chunk
C2_Witness ==
    /\ Len(results) >= 2
    /\ results[1].fallback_used
    /\ results[1].fallback_reason = "heading_not_allowed"

\* C3: when every attempt of a chunk fails validation and
\* allow_partial_on_chunk_failure is off, the transformer raises an error
\* that names the chunk index, the section, the number of attempts and the
\* last validation reason, and no result exists for that chunk
C3_HardFailureOnExhaustion ==
    /\ exc.kind = "chunk_failed" =>
          /\ ~cfg.allow_partial_on_chunk_failure
          /\ exc.chunk_index = Len(results) + 1
          /\ exc.chunk_index <= Len(chunk_jobs)
          /\ exc.section = SectionLabel(chunk_jobs[exc.chunk_index])
          /\ exc.attempts = cfg.max_chunk_retries + 1
          /\ exc.reason = last_error
          /\ exc.reason \in RejectionReasons
          /\ pc \in {"handle_failed", "done"}
    /\ ~cfg.allow_partial_on_chunk_failure =>
          \A i \in 1..Len(results) : ~results[i].fallback_used

\* the second chunk failed hard after a retry and the task was marked failed
C3_Witness ==
    /\ exc.kind = "chunk_failed"
    /\ exc.chunk_index = 2
    /\ exc.attempts = 2
    /\ status = "failed"

\* C4: the text of every chunk result of a continuation job, accepted from
\* an attempt or built by the fallback, has no heading line (^\s*#{1,6}\s+.+$)
\* outside fenced code
C4_NoHeadingInContinuationResult ==
    \A i \in 1..Len(results) :
        chunk_jobs[i].continuation_mode =>
            \A j \in 1..Len(results[i].text) :
                OutsideCode(results[i].text, j) => ~IsHeadingLine(results[i].text[j])

\* a continuation chunk whose fallback lost its heading line, and one
\* accepted from an attempt with a heading line kept inside fenced code
C4_Witness ==
    \E i, k \in 1..Len(results) :
        /\ chunk_jobs[i].continuation_mode /\ results[i].fallback_used
        /\ results[i].text # chunk_jobs[i].content
        /\ chunk_jobs[k].continuation_mode /\ ~results[k].fallback_used
        /\ \E j \in 1..Len(results[k].text) : IsHeadingLine(results[k].text[j])

\* the worker is past convert: in a handler of _run_task or finished
WorkerUnwound == pc \in {"handle_stopped", "done", "crashed"}

\* C5: a _check_stop stands before every phase, every chunk attempt and
\* every backend call; once one of them has observed the stop request the
\* pipeline is unwinding with the stopped signal and starts no backend call
C5_NoBackendCallAfterObservedStop ==
    [][ /\ stop_seen => (WorkerUnwound /\ llm_calls' = llm_calls)
        /\ llm_calls' # llm_calls => pc \in {NextPoint(p) : p \in CheckPoints} ]_vars

\* a task stopped by a check after a backend call and a chunk result
C5_Witness ==
    /\ stop_seen
    /\ llm_calls >= 1
    /\ results # <<>>
    /\ status = "stopped"

\* the partial artifact built from the given chunk results, post-processed
\* up to twice; no file when their joined text is blank
IsPartialArtifactOf(file, converted_chunks) ==
    IF IsBlankText(JoinChunks(converted_chunks)) THEN file = NoFile
    ELSE /\ file.exists
         /\ file.kind = "partial"
         /\ file.chunks = converted_chunks
         /\ file.passes \in 0..2

\* C6 as stated: when a stop is requested inside the chunk loop after k of
\* n chunks were processed (0 < k < n), the run ends with the status
\* "stopped" and the partial artifact holds the text of those k results only
C6_StoppedWithChunksAtRequest ==
    (pc = "done" /\ 0 < stop_at /\ stop_at < Len(chunk_jobs)) =>
        /\ status = "stopped"
        /\ IsPartialArtifactOf(output_file, SubSeq(Texts(results), 1, stop_at))

\* C6 amended: once a _check_stop has observed the stop request with k of n
\* chunk results produced (0 < k < n), the worker produces no further chunk
\* result and starts no backend call, it writes neither "failed" nor
\* "completed", and when it finishes it writes "stopped" together with the
\* partial artifact built from exactly those k results
C6_StoppedWithChunksAtObservation ==
    [][ (stop_seen /\ 0 < Len(results) /\ Len(results) < Len(chunk_jobs)) =>
            /\ results' = results
            /\ llm_calls' = llm_calls
            /\ status' \notin {"failed", "completed"}
            /\ (pc # "done" /\ pc' = "done") =>
                  /\ status' = "stopped"
                  /\ IsPartialArtifactOf(output_file', Texts(results)) ]_vars

\* a task of three chunks stopped after two, its artifact holding these two
C6_Witness ==
    /\ pc = "done"
    /\ stop_seen
    /\ status = "stopped"
    /\ Len(chunk_jobs) = 3
    /\ Len(results) = 2
    /\ output_file.exists
    /\ output_file.chunks = Texts(results)

-----------------------------------------------------------------------------
(* One round of the chunk transformer applied to every small pair of a     *)
(* source chunk and a backend answer: specification SpecChunk              *)

MaxPieces == 3

\* the source chunks: without JSON, with one block, with a block that needs
\* repair and one that cannot be repaired, an error-code section with a
\* code, one without any, and a code outside an error-code section
ChunkSources ==
    { <<Text(1)>>,
      <<Text(1), JsonFence, JsonLine(1), Fence>>,
      <<JsonFence, JsonLineSq(1), Fence, Text(1), JsonFence, Text(2), Fence>>,
      <<ErrMark, CodeRow(1001)>>,
      <<ErrMark, Text(1)>>,
      <<Text(1), CodeRow(1001)>> }

\* the pieces the answers of the backend are made of
AnswerPieces ==
    { <<Text(1)>>, <<Blank>>, <<ErrMark>>, <<CodeRow(1001)>>, <<CodeRow(2002)>>,
      <<HeadLine(2, <<>>, 1)>>,
      <<JsonFence, JsonLine(1), Fence>>,
      <<JsonFence, JsonLine(2), Fence>>,
      <<JsonFence, Text(2), Fence>>,
      <<Fence, JsonLine(2), Fence>> }

ChunkAnswers == {Flatten(ps) : ps \in UNION {[1..n -> AnswerPieces] : n \in 1..MaxPieces}}

\* a job of the flat strategy, or a continuation chunk, for a source chunk
JobFor(source, continuation_mode) ==
    [content |-> source, continuation_mode |-> continuation_mode,
     allowed_headings |-> <<>>, chunk_has_heading |-> FALSE]

InitChunk ==
    /\ NoTask
    /\ pc = "attempt"
    /\ args \in [job        : {JobFor(src, c) : src \in ChunkSources, c \in BOOLEAN},
                  content    : ChunkAnswers,
                  truncated  : BOOLEAN,
                  min_tokens : {1, 20}]
    /\ ret = <<>>
    /\ content_body = <<Blank>>
    /\ expected_headings = <<>>
    /\ chunk_size = 8
    /\ chunk_strategy = "flat"
    /\ chunk_jobs = <<>>
    /\ markdown = <<Blank>>

\* _convert_chunk_with_retry, lines 1687-1787: the answer is normalised and
\* validated
ConvertAttempt ==
    /\ pc = "attempt"
    /\ ret' = NormalizeAndValidate(args.job, args.content, args.truncated, args.min_tokens)
    /\ pc' = "attempted"
    /\ UNCHANGED <<planVars, taskVars, stopVars, workVars, runVars, args>>

NextChunk == ConvertAttempt

SpecChunk == InitChunk /\ [][NextChunk]_vars

\* the contents of the ```json blocks of a text
JsonContents(txt) ==
    LET bs == _extract_json_blocks(txt) IN {bs[k].content : k \in 1..Len(bs)}

\* the source blocks as the normalisation prints them
SourceJsonContents(source) ==
    {_normalize_json_block_with_diagnostics(c).normalized : c \in JsonContents(source)}

\* C11: when the source chunk holds one or more ```json blocks, every
\* ```json block of an accepted, normalised answer carries the content of a
\* source block, however many blocks the backend wrote
C11_EveryJsonBlockFromSource ==
    (/\ pc = "attempted"
     /\ ret.reason = "ok"
     /\ _extract_json_blocks(args.job.content) # <<>>)
        => JsonContents(ret.converted) \subseteq SourceJsonContents(args.job.content)

C13_AcceptedCodesSubsetOfSource ==
    (/\ pc = "attempted"
     /\ HasErrorCodeMarker(args.job.content)
     /\ ret.reason = "ok")
        => _extract_error_codes(ret.converted) \subseteq _extract_error_codes(args.job.content)

-----------------------------------------------------------------------------
(* Whole-document validation applied to every small pair of an expected     *)
(* heading list and a final document: specification SpecFinal               *)

MaxExpected == 2
MaxFinalLines == 3

FinalExpectedLists ==
    UNION {[1..n -> {Heading(<<1>>, 1), Heading(<<1, 1>>, 2)}] : n \in 0..MaxExpected}

FinalLines ==
    {HeadLine(2, <<1>>, 1), HeadLine(3, <<1, 1>>, 2), HeadLine(1, <<>>, 1), Text(1), Fence}

FinalDocs == UNION {[1..n -> FinalLines] : n \in 1..MaxFinalLines}

InitFinal ==
    /\ NoTask
    /\ pc = "validate"
    /\ expected_headings \in FinalExpectedLists
    /\ markdown \in FinalDocs
    /\ content_body = <<Blank>>
    /\ chunk_size = 8
    /\ chunk_strategy = "flat"
    /\ chunk_jobs = <<>>
    /\ NoCall

\* convert, line 434: self._validate_final_output(raw_md, result, expected_headings)
ValidateFinal ==
    /\ pc = "validate"
    /\ ret' = [issues |-> _validate_final_output(content_body, markdown, expected_headings)]
    /\ pc' = "validated"
    /\ UNCHANGED <<planVars, taskVars, stopVars, workVars, runVars, args>>

NextFinal == ValidateFinal

SpecFinal == InitFinal /\ [][NextFinal]_vars

\* the expected headings and the numbered headings of the final document, as
\* bags of normalised texts
ExpectedBag ==
    LET e == [k \in 1..Len(expected_headings) |->
                 <<expected_headings[k].sec, "none", expected_headings[k].ttl>>]
    IN  [h \in SeqRange(e) |-> CountIn(e, h)]

ActualBag ==
    LET a == [k \in 1..Len(NumberedHeadings(markdown)) |->
                 <<NumberedHeadings(markdown)[k].sec, NumberedHeadings(markdown)[k].dl,
                   NumberedHeadings(markdown)[k].ttl>>]
    IN  [h \in SeqRange(a) |-> CountIn(a, h)]

Copies(bag, h) == IF h \in DOMAIN bag THEN bag[h] ELSE 0

HeadingIssues == ret.issues \cap {"missing_headings", "extra_headings"}

\* C14 as stated: the validation reports a heading issue exactly when the bag
\* of the expected headings and the bag of the numbered headings of the final
\* document differ
C14_HeadingIssueIffBagsDiffer ==
    pc = "validated" => (HeadingIssues # {} <=> ExpectedBag # ActualBag)

\* C14: with a non-empty list of expected headings, a missing heading is
\* reported exactly when an expected heading occurs fewer times than expected
\* and an extra heading exactly when a numbered heading occurs more times than
\* expected, so no heading issue exactly when the bags are equal; with an
\* empty list the headings are not checked
C14_HeadingIssuesWhenExpected ==
    pc = "validated" =>
        IF expected_headings = <<>>
        THEN HeadingIssues = {}
        ELSE /\ "missing_headings" \in ret.issues <=>
                    \E h \in DOMAIN ExpectedBag : Copies(ActualBag, h) < ExpectedBag[h]
             /\ "extra_headings" \in ret.issues <=>
                    \E h \in DOMAIN ActualBag : Copies(ExpectedBag, h) < ActualBag[h]
             /\ HeadingIssues = {} <=> ExpectedBag = ActualBag

C14_Witness ==
    /\ pc = "validated"
    /\ Len(expected_headings) = 2
    /\ expected_headings[1] # expected_headings[2]
    /\ \E h \in DOMAIN ActualBag : ActualBag[h] = 2
    /\ ret.issues = {"missing_headings", "extra_headings"}

-----------------------------------------------------------------------------
(* Properties of the end of convert and of the event stream, under Spec *)

HasEvent(type) == \E k \in 1..Len(events) : events[k].type = type

\* the final validation was run and found issues
FinalValidationFailed ==
    /\ cfg.strict_mode
    /\ HasEvent("validation_started")
    /\ pc # "validate"
    /\ _validate_final_output(content_body, markdown, expected_headings) # {}

\* C15: with strict_mode on, a failed final validation either leaves convert
\* as one error that carries all the issues, no output document being
\* written and the task failing (allow_partial_on_validation_failure off),
\* or is recorded: a validation_warning event is emitted, the document is
\* written and the usage summary carries the text of the failure (switch on)
C15_ValidationFailureRaisedOrRecorded ==
    FinalValidationFailed =>
        LET issues == _validate_final_output(content_body, markdown, expected_headings)
        IN  IF ~cfg.allow_partial_on_validation_failure
            THEN /\ exc = [kind |-> "validation_failed", issues |-> issues]
                 /\ ~final_doc.exists /\ ~usage.returned /\ ~output_file.exists
                 /\ ~HasEvent("validation_warning")
                 /\ pc \in {"handle_failed", "done"}
                 /\ status # "completed"
            ELSE /\ validation_warning = issues
                 /\ \E k \in 1..Len(events) :
                        events[k] = Event("validation_warning", issues)
                 /\ exc.kind # "validation_failed"
                 /\ pc \in {"write_output", "handle_failed", "done"}
                 /\ pc # "write_output" =>
                        /\ final_doc.exists /\ final_doc.text = markdown
                        /\ usage.returned /\ usage.validation_warning = issues

C15_Witness ==
    /\ FinalValidationFailed
    /\ cfg.allow_partial_on_validation_failure
    /\ status = "completed"
    /\ final_doc.exists
    /\ usage.validation_warning = {"missing_headings"}
    /\ HasEvent("validation_warning")

\* C16: the usage summary of a convert that returned has degraded true
\* exactly when a chunk result came from the fallback or the final
\* validation was turned into a warning, and chunk_fallbacks is the number of
\* the chunk results that came from the fallback
C16_DegradedIffFallbackOrWarning ==
    usage.returned =>
        LET fallbacks == {k \in 1..Len(results) : results[k].fallback_used}
        IN  /\ usage.degraded \in BOOLEAN
            /\ usage.degraded <=> (fallbacks # {} \/ HasEvent("validation_warning"))
            /\ usage.chunk_fallbacks = Cardinality(fallbacks)

C16_Witness ==
    /\ usage.returned
    /\ usage.degraded
    /\ usage.chunk_fallbacks = 0
    /\ HasEvent("validation_warning")

\* an llm_call_failed event of the operation is in the log
CallFailed(operation) ==
    \E k \in 1..Len(events) : events[k] = Event("llm_call_failed", operation)

ChunkEvents == SelectSeq(events, LAMBDA e : e.type \in {"chunk_started", "chunk_completed"})

\* the chunk events of a loop that has completed n jobs in job order and,
\* with `open`, has started the next one
RECURSIVE ChunkEventsInOrder(_, _)
ChunkEventsInOrder(n, open) ==
    IF n = 0
    THEN IF open THEN <<Event("chunk_started", 1)>> ELSE <<>>
    ELSE ChunkEventsInOrder(n - 1, FALSE)
            \o <<Event("chunk_started", n), Event("chunk_completed", n)>>
            \o (IF open THEN <<Event("chunk_started", n + 1)>> ELSE <<>>)

\* C19: the chunk jobs are transformed one at a time in job order: the log
\* shows started 1, completed 1, started 2, completed 2, ... with one
\* completion per chunk result; a backend call for a chunk is made only
\* between the start of that chunk and its completion, all earlier chunks
\* being completed; and a conversion that returns has merged exactly one
\* result per job, in job order
C19_ChunksOneAtATimeInJobOrder ==
    /\ \E open \in BOOLEAN : ChunkEvents = ChunkEventsInOrder(Len(results), open)
    /\ pc = "llm_call" =>
          /\ ChunkEvents = ChunkEventsInOrder(Len(results), TRUE)
          /\ Len(results) < Len(chunk_jobs)
    /\ Len(results) <= Len(chunk_jobs)
    /\ \A k \in 1..Len(results) :
          results[k].fallback_used =>
              results[k].text =
                  FallbackFromSource(chunk_jobs[k], cfg.content_guard_min_tokens).converted
    /\ usage.returned =>
          /\ Len(results) = Len(chunk_jobs)
          /\ final_doc.chunks = Texts(results)
          /\ ChunkEvents = ChunkEventsInOrder(Len(chunk_jobs), FALSE)

C19_Witness ==
    /\ pc = "llm_call"
    /\ Len(chunk_jobs) = 3
    /\ Len(results) = 2
    /\ ChunkEvents = ChunkEventsInOrder(2, TRUE)

-----------------------------------------------------------------------------
(* The post-processing of partial content applied to every small list of   *)
(* chunk results, configuration and stop flag: specification SpecPartial   *)

MaxPreviewChunks == 2

PreviewChunkLists == UNION {[1..n -> LLMTexts] : n \in 1..MaxPreviewChunks}

InitPartial ==
    /\ NoTask
    /\ pc = "call"
    /\ args \in [generate_toc      : BOOLEAN,
                  deterministic_toc : BOOLEAN,
                  should_stop       : BOOLEAN,
                  converted_chunks  : PreviewChunkLists]
    /\ ret = <<>>
    /\ content_body = <<Blank>>
    /\ expected_headings = <<>>
    /\ chunk_size = 8
    /\ chunk_strategy = "flat"
    /\ chunk_jobs = <<>>
    /\ markdown = <<Blank>>

\* server._ensure_partial_output_file, line 187: the direct call
PostprocessPartial ==
    /\ pc = "call"
    /\ ret' = [of |-> "postprocess_partial_markdown"] @@
              postprocess_partial_markdown(args.generate_toc, args.deterministic_toc,
                                           args.should_stop, args.converted_chunks)
    /\ pc' = "returned"
    /\ UNCHANGED <<planVars, taskVars, stopVars, workVars, runVars, args>>

\* convert, lines 360-361: the preview after a chunk
BuildPartialPreview ==
    /\ pc = "call"
    /\ ret' = [of |-> "_build_partial_preview_markdown"] @@
              _build_partial_preview_markdown(args.generate_toc, args.deterministic_toc,
                                              args.should_stop, args.converted_chunks)
    /\ pc' = "returned"
    /\ UNCHANGED <<planVars, taskVars, stopVars, workVars, runVars, args>>

NextPartial == PostprocessPartial \/ BuildPartialPreview

SpecPartial == InitPartial /\ [][NextPartial]_vars

\* C20: neither postprocess_partial_markdown nor the building of the preview
\* after a chunk calls the backend or raises the stop signal, whatever
\* generate_toc and deterministic_toc are and whether or not a stop is
\* requested
C20_PartialPostprocessIsLocal ==
    pc = "returned" => ret.llm_calls = 0 /\ ~ret.stopped

C20_Witness ==
    /\ pc = "returned"
    /\ ret.of = "postprocess_partial_markdown"
    /\ args.generate_toc /\ ~args.deterministic_toc /\ args.should_stop
    /\ HasTocHeadings(ret.text)
    /\ ret.llm_calls = 0 /\ ~ret.stopped

-----------------------------------------------------------------------------
(* The event list of a task that already holds nearly MAX_TASK_EVENTS      *)
(* events, and to which the callbacks append: specification SpecEvents     *)

MaxBacklogGap == 2
MaxAppended == 6

\* the events recorded so far: n events, numbered in the order of emission
Backlog(n) == [k \in 1..n |-> Event("info", k)]

InitEvents ==
    /\ pc = "running"
    /\ cfg = [max_chunk_retries |-> 0, allow_partial_on_chunk_failure |-> FALSE,
              content_guard_min_tokens |-> 20, generate_toc |-> TRUE, deterministic_toc |-> TRUE,
              strict_mode |-> FALSE, allow_partial_on_validation_failure |-> TRUE]
    /\ status = "running"
    /\ stop_requested = FALSE
    /\ output_file = [exists |-> FALSE]
    /\ spc = "idle"
    /\ stop_at = -1
    /\ attempt = 0
    /\ last_error = ""
    /\ results = <<>>
    /\ preview = [exists |-> FALSE]
    /\ exc = [kind |-> "none"]
    /\ llm_calls = 0
    /\ chunk_calls = 0
    /\ stop_seen = FALSE
    /\ chunk_fallback_count = 0
    /\ validation_warning = {}
    /\ usage = [returned |-> FALSE]
    /\ final_doc = [exists |-> FALSE]
    /\ \E n \in (MAX_TASK_EVENTS - MaxBacklogGap)..MAX_TASK_EVENTS : events = Backlog(n)
    /\ args = [appended |-> 0]
    /\ ret = <<>>
    /\ content_body = <<Blank>>
    /\ expected_headings = <<>>
    /\ chunk_size = 8
    /\ chunk_strategy = "flat"
    /\ chunk_jobs = <<>>
    /\ markdown = <<Blank>>

\* the number of the next event
NextEventNumber == events[Len(events)].detail + 1

\* a callback records an event of the type
RecordEvent(type) ==
    /\ pc = "running"
    /\ args.appended < MaxAppended
    /\ events' = _append_task_event(events, Event(type, NextEventNumber))
    /\ args' = [appended |-> args.appended + 1]
    /\ UNCHANGED <<pc, planVars, taskVars, stopVars, workVars, ret>>
    /\ UNCHANGED <<chunk_fallback_count, validation_warning, usage, final_doc>>

\* server._on_progress, lines 217-236
OnProgress == RecordEvent("progress")

\* server._on_agent_event, lines 238-264
OnAgentEvent == RecordEvent("agent")

NextEvents == OnProgress \/ OnAgentEvent

SpecEvents == InitEvents /\ [][NextEvents]_vars

\* seq is the beginning of other
IsPrefix(seq, other) ==
    Len(seq) <= Len(other) /\ SubSeq(other, 1, Len(seq)) = seq

\* seq is the end of other
IsSuffix(seq, other) ==
    Len(seq) <= Len(other) /\ SubSeq(other, Len(other) - Len(seq) + 1, Len(other)) = seq

\* C18 as stated: the event list only grows at its end; no event recorded is
\* ever removed or moved
C18_AppendOnly == [][IsPrefix(events, events')]_vars

\* C18: the event list is ordered and keeps the latest MAX_TASK_EVENTS
\* events: a new event goes to the end, the events before it are the end of
\* the previous list in the same order, and an event is removed only when
\* the list would exceed MAX_TASK_EVENTS, the oldest first
C18_LatestEventsInOrder ==
    [][events' # events =>
          /\ Len(events') = IF Len(events) < MAX_TASK_EVENTS
                            THEN Len(events) + 1 ELSE MAX_TASK_EVENTS
          /\ events'[Len(events')].detail = events[Len(events)].detail + 1
          /\ IsSuffix(SubSeq(events', 1, Len(events') - 1), events)
          /\ \A k \in 1..(Len(events') - 1) : events'[k].detail + 1 = events'[k + 1].detail]_vars

C18_Witness ==
    /\ Len(events) = MAX_TASK_EVENTS
    /\ events[1].detail = 3
    /\ events[Len(events)].type = "agent"
    /\ events[Len(events)].detail = MAX_TASK_EVENTS + 2

-----------------------------------------------------------------------------
(* The fidelity guard applied to sources of about twenty distinct tokens:  *)
(* specification SpecGuard                                                 *)

MaxSourceTokens == 21
MaxSourceCopies == 2
\* the smallest number of tokens of which 82% is a whole number
BoundarySourceTokens == 50

RECURSIVE TokenLines(_, _)
\* the text "tok1\ntok2\n...\ntok<n>", `copies` times over
TokenLines(n, copies) ==
    IF copies = 0 THEN <<>>
    ELSE [k \in 1..n |-> Text(k)] \o TokenLines(n, copies - 1)

\* the calls studied: a source of `distinct` tokens, each on a line of its
\* own and the whole repeated `copies` times, and a candidate that keeps the
\* first `retained` of them, `kept_copies` times (the empty string when it
\* keeps none)
GuardCalls ==
    { [distinct    |-> n,
       retained    |-> m,
       copies      |-> c,
       kept_copies |-> k,
       source      |-> TokenLines(n, c),
       candidate   |-> IF m = 0 THEN <<Blank>> ELSE TokenLines(m, k)] :
        n \in ((ContentGuardMinTokens - 1)..MaxSourceTokens) \cup {BoundarySourceTokens},
        m \in 0..BoundarySourceTokens,
        c \in 1..MaxSourceCopies,
        k \in 1..MaxSourceCopies }

InitGuard ==
    /\ NoTask
    /\ pc = "guard"
    /\ content_body = <<Blank>>
    /\ expected_headings = <<>>
    /\ chunk_size = 8
    /\ chunk_strategy = "flat"
    /\ chunk_jobs = <<>>
    /\ markdown = <<Blank>>
    /\ args \in {a \in GuardCalls : a.retained <= a.distinct /\ a.kept_copies <= a.copies}
    /\ ret = <<>>

\* _validate_chunk_output, line 1633: self._check_content_preservation(source_chunk,
\* converted_chunk), with the thresholds of the defaults
CheckContentPreservation ==
    /\ pc = "guard"
    /\ ret' = [reason |-> _check_content_preservation(args.source, args.candidate,
                                                       ContentGuardMinTokens)]
    /\ pc' = "guard_checked"
    /\ UNCHANGED <<planVars, taskVars, stopVars, workVars, runVars, args>>

NextGuard == CheckContentPreservation

SpecGuard == InitGuard /\ [][NextGuard]_vars

\* the characters of "tok1", ..., "tok<n>" together, for n below 100: four
\* for each of the first nine tokens and five for each of the others
TokenChars(n) == IF n < 10 THEN 4 * n ELSE 36 + 5 * (n - 9)

\* the length of the plain text of n tokens written `copies` times, one blank
\* between two tokens
PlainChars(n, copies) == IF n = 0 THEN 0 ELSE copies * TokenChars(n) + copies * n - 1

\* the candidate of the call keeps fewer than 82% of the distinct tokens
LowCoverage == args.retained * 100 < MinContentTokenCoveragePct * args.distinct

\* the plain text of the candidate is shorter than 62% of a source of 120
\* characters or more
LowCharRatio ==
    /\ PlainChars(args.distinct, args.copies) >= CharRatioMinSourceLen
    /\ PlainChars(args.retained, args.kept_copies) * 100
           < MinContentCharRatioPct * PlainChars(args.distinct, args.copies)

\* C21 as stated: for a source of at least 20 distinct tokens the guard
\* fails exactly when the candidate keeps fewer than 82% of them
C21_PassesIffCoverageAtLeast82 ==
    pc = "guard_checked" /\ args.distinct >= ContentGuardMinTokens =>
        (ret.reason = "ok" <=> ~LowCoverage)

\* C21: for a source of at least 20 distinct tokens the guard fails, naming
\* the token coverage, when the candidate keeps fewer than 82% of them; with
\* 82% or more it fails, naming the character ratio, when the source has 120
\* plain characters or more and the candidate fewer than 62% of them, and
\* passes otherwise
C21_FailsOnLowCoverageOrLowCharRatio ==
    pc = "guard_checked" /\ args.distinct >= ContentGuardMinTokens =>
        ret.reason = IF LowCoverage THEN "token_coverage_too_low"
                     ELSE IF LowCharRatio THEN "char_ratio_too_low"
                     ELSE "ok"

\* 41 of 50 tokens are exactly 82%: the coverage passes, and the candidate
\* that keeps them once of a source that has each twice is too short
C21_Witness ==
    /\ pc = "guard_checked"
    /\ args.distinct = BoundarySourceTokens
    /\ args.retained * 100 = MinContentTokenCoveragePct * args.distinct
    /\ args.copies = 2 /\ args.kept_copies = 1
    /\ ret.reason = "char_ratio_too_low"

-----------------------------------------------------------------------------
(* Progress reports of convert: specification Spec *)

ProgressStages == {"preprocess", "analyze", "convert", "toc", "done"}

\* the log holds the report of progress_callback(stage, current, total)
Reported(stage, current, total) ==
    \E k \in 1..Len(events) : events[k] = Progress(stage, current, total)

\* C22: every call of the progress callback names one of the stages
\* preprocess, analyze, convert, toc and done and has 0 <= current <= total;
\* in the stage convert, total is the number of chunk jobs
C22_ProgressWithinBounds ==
    \A k \in 1..Len(events) :
        events[k].type = "progress" =>
            LET stage   == events[k].detail[1]
                current == events[k].detail[2]
                total   == events[k].detail[3]
            IN  /\ stage \in ProgressStages
                /\ 0 <= current /\ current <= total
                /\ stage = "convert" => total = Len(chunk_jobs)

\* a conversion of three chunks has reported every stage up to the end
C22_Witness ==
    /\ pc = "done" /\ status = "completed"
    /\ Len(chunk_jobs) = 3
    /\ \A i \in 0..3 : Reported("convert", i, 3)
    /\ Reported("preprocess", 4, 4) /\ Reported("analyze", 1, 1)
    /\ Reported("toc", 1, 1) /\ Reported("done", 1, 1)

-----------------------------------------------------------------------------
(* Doc2MDAgent._convert_chunk_with_retry called for one chunk job, round by *)
(* round, by an agent without stop checker: specification SpecRetry.  args *)
(* is the list of the calls of _convert_chunk made so far, ret.reasons the *)
(* list of what _validate_chunk_output answered for each attempt ("ok" for *)
(* a valid output) and ret.result what the function returned.              *)

MaxRetryBudget == 2

\* the jobs the planner makes of the documents of the pipeline
RetryJobs ==
    UNION { {PlanJobs(d.body, d.expected, d.size, d.strategy).jobs[k] :
                k \in 1..Len(PlanJobs(d.body, d.expected, d.size, d.strategy).jobs)} :
            d \in PipelineDocs }

NoResult == [returned |-> FALSE]

InitRetry ==
    /\ pc = "round"
    /\ \E job \in RetryJobs : chunk_jobs = <<job>>
    /\ cfg \in [max_chunk_retries                   : 0..MaxRetryBudget,
                 allow_partial_on_chunk_failure      : BOOLEAN,
                 content_guard_min_tokens            : {1, ContentGuardMinTokens},
                 generate_toc                        : {TRUE},
                 deterministic_toc                   : {TRUE},
                 strict_mode                         : {TRUE},
                 allow_partial_on_validation_failure : {TRUE}]
    /\ content_body = <<Blank>>
    /\ expected_headings = <<>>
    /\ chunk_size = 8
    /\ chunk_strategy = "section"
    /\ markdown = <<Blank>>
    /\ status = "none"
    /\ stop_requested = FALSE
    /\ output_file = NoFile
    /\ spc = "idle"
    /\ stop_at = -1
    /\ attempt = 0
    /\ last_error = ""
    /\ results = <<>>
    /\ preview = NoFile
    /\ exc = NoExc
    /\ llm_calls = 0
    /\ chunk_calls = 0
    /\ stop_seen = FALSE
    /\ chunk_fallback_count = 0
    /\ validation_warning = {}
    /\ usage = [returned |-> FALSE]
    /\ events = <<>>
    /\ final_doc = [exists |-> FALSE]
    /\ args = <<>>
    /\ ret = [reasons |-> <<>>, result |-> NoResult]

\* lines 1654-1686 and 1937-1952: a round starts and _convert_chunk builds
\* the prompt
ConvertChunkPrompt ==
    /\ pc = "round"
    /\ args' = Append(args, [attempt_no   |-> AttemptNo(attempt),
                             retry_reason |-> RetryReason(attempt, last_error)])
    /\ pc' = "chat"
    /\ UNCHANGED <<planVars, taskVars, stopVars, workVars, runVars, ret>>

\* line 1954: chat_with_meta raises and the exception leaves the function
ConvertChunkRaises ==
    /\ pc = "chat"
    /\ llm_calls' = llm_calls + 1
    /\ events' = _append_task_event(events, Event("llm_call_failed", "convert_chunk"))
    /\ exc' = [kind |-> "backend"]
    /\ pc' = "raised"
    /\ UNCHANGED <<planVars, taskVars, stopVars, cfg, attempt, last_error, results, preview,
                   chunk_calls, stop_seen>>
    /\ UNCHANGED <<chunk_fallback_count, validation_warning, usage, final_doc, callVars>>

\* lines 1687-1787: the answer is normalised, passes validation and is returned
RoundAccepted ==
    /\ pc = "chat"
    /\ \E r \in LLMResponses(chunk_jobs[1]) :
          \E v \in {NormalizeAndValidate(chunk_jobs[1], r.content, r.truncated,
                                         cfg.content_guard_min_tokens)} :
              /\ v.reason = "ok"
              /\ ret' = [reasons |-> Append(ret.reasons, v.reason),
                         result  |-> [returned        |-> TRUE,
                                      text            |-> v.converted,
                                      attempts_used   |-> AttemptNo(attempt),
                                      fallback_used   |-> FALSE,
                                      fallback_reason |-> "",
                                      fallback_validation_reason |-> ""]]
    /\ llm_calls' = llm_calls + 1
    /\ events' = _append_task_event(
                      events, Event("chunk_validation_passed", <<1, AttemptNo(attempt)>>))
    /\ pc' = "returned"
    /\ UNCHANGED <<planVars, taskVars, stopVars, cfg, attempt, last_error, results, preview,
                   exc, chunk_calls, stop_seen>>
    /\ UNCHANGED <<chunk_fallback_count, validation_warning, usage, final_doc, args>>

\* lines 1687-1813: the answer fails validation; the loop goes on or ends
RoundRejected ==
    /\ pc = "chat"
    /\ \E r \in LLMResponses(chunk_jobs[1]) :
          \E v \in {NormalizeAndValidate(chunk_jobs[1], r.content, r.truncated,
                                         cfg.content_guard_min_tokens)} :
              /\ v.reason # "ok"
              /\ ret' = [ret EXCEPT !.reasons = Append(@, v.reason)]
              /\ last_error' = LastErrorAfter(last_error, v.reason)
    /\ llm_calls' = llm_calls + 1
    /\ events' = _append_task_event(events, ChunkValidationFailed(1, AttemptNo(attempt)))
    /\ attempt' = attempt + 1
    /\ pc' = IF HasAttemptsLeft(attempt + 1, cfg.max_chunk_retries) THEN "round" ELSE "exhausted"
    /\ UNCHANGED <<planVars, taskVars, stopVars, cfg, results, preview, exc, chunk_calls,
                   stop_seen>>
    /\ UNCHANGED <<chunk_fallback_count, validation_warning, usage, final_doc, args>>

\* lines 1815-1820: no attempt is left and the function raises
ExhaustedRaises ==
    /\ pc = "exhausted"
    /\ RaisesOnExhaustion(cfg.allow_partial_on_chunk_failure)
    /\ exc' = [kind        |-> "chunk_failed",
               chunk_index |-> 1,
               section     |-> SectionLabel(chunk_jobs[1]),
               attempts    |-> cfg.max_chunk_retries + 1,
               reason      |-> last_error]
    /\ pc' = "raised"
    /\ UNCHANGED <<planVars, taskVars, stopVars, cfg, attempt, last_error, results, preview,
                   llm_calls, chunk_calls, stop_seen>>
    /\ UNCHANGED <<runVars, callVars>>

\* lines 1822-1886: no attempt is left and the fallback built from the
\* source chunk is returned, with the outcome of its own validation
ExhaustedFallsBack ==
    /\ pc = "exhausted"
    /\ ~RaisesOnExhaustion(cfg.allow_partial_on_chunk_failure)
    /\ \E f \in {FallbackFromSource(chunk_jobs[1], cfg.content_guard_min_tokens)} :
          /\ ret' = [ret EXCEPT !.result =
                         [returned        |-> TRUE,
                          text            |-> f.converted,
                          attempts_used   |-> cfg.max_chunk_retries + 1,
                          fallback_used   |-> TRUE,
                          fallback_reason |-> FallbackReason(last_error),
                          fallback_validation_reason |->
                              FallbackValidationReason(f.reason)]]
          /\ events' = _append_task_event(
                            events, Event("chunk_fallback_used", <<1, f.reason = "ok">>))
    /\ pc' = "returned"
    /\ UNCHANGED <<planVars, taskVars, stopVars, workVars>>
    /\ UNCHANGED <<chunk_fallback_count, validation_warning, usage, final_doc, args>>

NextRetry ==
    \/ ConvertChunkPrompt
    \/ ConvertChunkRaises
    \/ RoundAccepted
    \/ RoundRejected
    \/ ExhaustedRaises
    \/ ExhaustedFallsBack

SpecRetry == InitRetry /\ [][NextRetry]_vars

\* C23: the prompt of the first attempt carries no failure reason, and the
\* prompt of every later attempt k carries the reason with which the
\* validation rejected attempt k - 1
C23_PromptCarriesLastFailureReason ==
    \A k \in 1..Len(args) :
        /\ args[k].attempt_no = k
        /\ IF k = 1 THEN args[k].retry_reason = ""
           ELSE /\ ret.reasons[k - 1] \in RejectionReasons
                /\ args[k].retry_reason = ret.reasons[k - 1]

\* the third attempt is asked with the reason of the second, which is not
\* that of the first
C23_Witness ==
    /\ pc = "chat"
    /\ Len(args) = 3
    /\ ret.reasons[1] # ret.reasons[2]
    /\ args[2].retry_reason = ret.reasons[1]
    /\ args[3].retry_reason = ret.reasons[2]

\* C24: the first attempt whose normalised output passes the validation is
\* the last: the function returns its text, not marked as fallback and with
\* attempts_used the number of that attempt, and no backend call was made
\* after it
C24_FirstValidAttemptAccepted ==
    \A k \in 1..Len(ret.reasons) :
        ret.reasons[k] = "ok" =>
            /\ k = Len(ret.reasons)
            /\ Len(args) = k /\ llm_calls = k
            /\ pc = "returned"
            /\ ret.result.returned
            /\ ~ret.result.fallback_used
            /\ ret.result.attempts_used = k
            /\ ret.result.fallback_reason = ""

\* two rejected attempts, and the third is accepted
C24_Witness ==
    /\ pc = "returned"
    /\ Len(ret.reasons) = 3
    /\ ret.reasons[3] = "ok"
    /\ ret.result.attempts_used = 3
    /\ llm_calls = 3

-----------------------------------------------------------------------------
(* What follows a failed chunk validation: specification Spec *)

\* the step of the worker in which an attempt fails validation
FailedAttemptStep == pc = "llm_call" /\ attempt' = attempt + 1

\* the step appends the result of a chunk
ChunkResultStep == Len(results') = Len(results) + 1

\* what _validate_chunk_output says of the text of the result just appended
ResultValidation ==
    LET job == chunk_jobs[Len(results')]
    IN  _validate_chunk_output(job.content, results'[Len(results')].text, job.allowed_headings,
                               job.continuation_mode, FALSE, cfg.content_guard_min_tokens)

\* a failed attempt records its event and ends in another round, in a
\* fallback result or in the error of the chunk
FailureIsHandled ==
    FailedAttemptStep =>
        /\ events'[Len(events')] = ChunkValidationFailed(Len(results) + 1, attempt')
               \/ (ChunkResultStep /\ events'[Len(events') - 2] =
                                           ChunkValidationFailed(Len(results) + 1, attempt'))
        /\ \/ pc' = "check_attempt" /\ results' = results /\ exc' = NoExc
              /\ HasAttemptsLeft(attempt', cfg.max_chunk_retries)
           \/ ChunkResultStep /\ results'[Len(results')].fallback_used /\ exc' = NoExc
           \/ pc' = "handle_failed" /\ results' = results /\ exc'.kind = "chunk_failed"

\* a text returned for a chunk is valid or marked as fallback, and a
\* fallback text that is not valid carries the reason
ResultIsValidOrMarked ==
    ChunkResultStep =>
        LET result == results'[Len(results')]
        IN  /\ result.fallback_used \/ ResultValidation = "ok"
            /\ result.fallback_used =>
                   result.fallback_validation_reason =
                       (IF ResultValidation = "ok" THEN "" ELSE ResultValidation)
            /\ ~result.fallback_used => result.fallback_validation_reason = ""

\* the worker leaves the head of a round that follows a failed attempt
LeavesRetryRound == pc = "check_attempt" /\ attempt > 0 /\ pc' # pc

-----------------------------------------------------------------------------
(* Heading forcing applied to every small answer for a chunk that opens a   *)
(* section: specification SpecForce                                         *)

MaxAnswerLines == 3

\* the documents whose first job opens section "1 T1": the section with a
\* sub-heading in one job, the section with a line of text, and a section
\* whose heading in the body carries another title
ForceDocs ==
    { [body |-> <<HeadLine(1, <<>>, 1), HeadLine(2, <<>>, 2), Text(1)>>, size |-> 20],
      [body |-> <<HeadLine(1, <<>>, 1), Text(1)>>, size |-> 8],
      [body |-> <<HeadLine(1, <<>>, 2), Text(1)>>, size |-> 8] }

\* the first job of each document, planned for the headings <<"1 T1">>
ForceJobs ==
    {PlanJobs(d.body, <<Heading(<<1>>, 1)>>, d.size, "section").jobs[1] : d \in ForceDocs}

\* the lines of the answers: a heading with another title, the title of the
\* section at another depth and without its number, the heading as it is
\* asked for, a line of text and a fence line
ForceLines ==
    {HeadLine(2, <<>>, 2), HeadLine(3, <<>>, 1), HeadLine(2, <<1>>, 1), Text(1), Fence}

ForceAnswers == UNION {[1..n -> ForceLines] : n \in 1..MaxAnswerLines}

InitForce ==
    /\ NoTask
    /\ pc = "attempt"
    /\ args \in [job        : ForceJobs,
                  content    : ForceAnswers,
                  truncated  : {FALSE},
                  min_tokens : {ContentGuardMinTokens}]
    /\ ret = <<>>
    /\ content_body = <<Blank>>
    /\ expected_headings = <<Heading(<<1>>, 1)>>
    /\ chunk_size = 8
    /\ chunk_strategy = "section"
    /\ chunk_jobs = <<>>
    /\ markdown = <<Blank>>

\* _convert_chunk_with_retry, lines 1822-1843: the answer was rejected, no
\* attempt is left and the fallback text is built from the source chunk
ConvertFallback ==
    /\ pc = "attempted"
    /\ ret.reason # "ok"
    /\ ret' = FallbackFromSource(args.job, args.min_tokens)
    /\ pc' = "fallback"
    /\ UNCHANGED <<planVars, taskVars, stopVars, workVars, runVars, args>>

NextForce ==
    \/ ConvertAttempt
    \/ ConvertFallback

SpecForce == InitForce /\ [][NextForce]_vars

\* the heading lines of a text that lie outside fenced code, as indices
HeadingsOutsideCode(txt) ==
    {i \in 1..Len(txt) : OutsideCode(txt, i) /\ IsHeadingLine(txt[i])}

\* the allowed heading of a job as a heading line at the depth of its path
AllowedHeadingLine(job) ==
    HeadLine(Min(6, Len(job.allowed_headings[1].sec) + 1),
             job.allowed_headings[1].sec, job.allowed_headings[1].ttl)

\* C26: for a chunk that is not a continuation and has an allowed heading,
\* the text that the forcing leaves (of an accepted answer, and of the
\* fallback) has a heading line outside fenced code when the answer had one
\* or the source chunk has one, and its first heading line outside fenced
\* code is the allowed heading at the depth of its numeric path
C26_FirstHeadingIsAllowedHeading ==
    (/\ pc \in {"attempted", "fallback"}
     /\ pc = "attempted" => ret.reason = "ok"
     /\ ~args.job.continuation_mode
     /\ args.job.allowed_headings # <<>>)
        => LET hs == HeadingsOutsideCode(ret.converted)
           IN  /\ args.job.chunk_has_heading => hs # {}
               /\ hs # {} =>
                     ret.converted[CHOOSE i \in hs : \A j \in hs : i <= j]
                         = AllowedHeadingLine(args.job)

-----------------------------------------------------------------------------
(* The status of a finished task (specification Spec) *)

TerminalStatuses == {"completed", "failed", "stopped"}

\* C27: once the status of the task is completed, failed or stopped, no step
\* of the worker thread or of a stop request changes it; in particular no
\* stop request moves a finished task back to "stopping"
C27_TerminalStatusIsFinal ==
    [][(status \in TerminalStatuses) => (status' = status)]_vars

-----------------------------------------------------------------------------
(* Termination of the task: specification SpecLive.  The worker thread is  *)
(* scheduled and every call it makes returns or raises, so a step of       *)
(* _run_task that can be taken is eventually taken; nothing is assumed     *)
(* about the stop requests, which may or may not arrive.                   *)

\* a step of the worker thread: a step of the task that is not a step of a
\* stop request (these are the steps that move the request thread)
RunTaskStep == Next /\ UNCHANGED spc

SpecLive == Init /\ [][Next]_vars /\ WF_vars(RunTaskStep)

\* C28: the task eventually has a terminal status (completed, stopped or
\* failed), whenever the stop requests arrive and also when the packaging of
\* the partial result fails
C28_EventuallyTerminal == <>(status \in TerminalStatuses)

-----------------------------------------------------------------------------
(* Concurrent stop requests on one task: specification SpecStop.  The      *)
(* endpoint stop_task is a synchronous function, which the server runs in  *)
(* a thread of its pool for every request; spc[t] is the position of       *)
(* request t.  The worker thread starts the task and does not finish it.   *)

MaxStopRequests == 3

StopRequests == 1..MaxStopRequests

InitStop ==
    /\ pc = "queued"
    /\ content_body = <<Text(1)>>
    /\ expected_headings = <<>>
    /\ chunk_size = 8
    /\ chunk_strategy = "flat"
    /\ chunk_jobs = <<>>
    /\ markdown = <<Blank>>
    /\ cfg = [max_chunk_retries |-> 0, allow_partial_on_chunk_failure |-> FALSE,
              content_guard_min_tokens |-> ContentGuardMinTokens, generate_toc |-> TRUE,
              deterministic_toc |-> TRUE, strict_mode |-> FALSE,
              allow_partial_on_validation_failure |-> TRUE]
    /\ status = "queued"
    /\ stop_requested = FALSE
    /\ output_file = NoFile
    /\ spc = [t \in StopRequests |-> "idle"]
    /\ stop_at = -1
    /\ attempt = 0
    /\ last_error = ""
    /\ results = <<>>
    /\ preview = NoFile
    /\ exc = NoExc
    /\ llm_calls = 0
    /\ chunk_calls = 0
    /\ stop_seen = FALSE
    /\ chunk_fallback_count = 0
    /\ validation_warning = {}
    /\ usage = [returned |-> FALSE]
    /\ events = <<>>
    /\ final_doc = [exists |-> FALSE]
    /\ NoCall

\* stop_task, lines 431-439: request t arrives; _require_task and the two
\* tests of task.status
StopRequestReadsStatus(t) ==
    /\ spc[t] = "idle"
    /\ spc' = [spc EXCEPT ![t] = IF status \in TerminalStatuses THEN "returned"
                                 ELSE "read_flag"]
    /\ UNCHANGED <<pc, planVars, taskVars, stop_at, workVars>>
    /\ UNCHANGED <<runVars, callVars>>

\* lines 440-445: the test of task.stop_requested
StopRequestReadsFlag(t) ==
    /\ spc[t] = "read_flag"
    /\ spc' = [spc EXCEPT ![t] = IF stop_requested THEN "returned" ELSE "write"]
    /\ UNCHANGED <<pc, planVars, taskVars, stop_at, workVars>>
    /\ UNCHANGED <<runVars, callVars>>

\* lines 447-453: _update_task(status="stopping", stop_requested=True)
StopRequestWrites(t) ==
    /\ spc[t] = "write"
    /\ status' = "stopping"
    /\ stop_requested' = TRUE
    /\ spc' = [spc EXCEPT ![t] = "append"]
    /\ UNCHANGED <<pc, planVars, output_file, stop_at, workVars>>
    /\ UNCHANGED <<runVars, callVars>>

\* lines 454-459: _append_task_event(task_id, "stop_requested", ...) and the
\* answer
StopRequestAppendsEvent(t) ==
    /\ spc[t] = "append"
    /\ events' = _append_task_event(events, Event("stop_requested", 0))
    /\ spc' = [spc EXCEPT ![t] = "returned"]
    /\ UNCHANGED <<pc, planVars, taskVars, stop_at, workVars>>
    /\ UNCHANGED <<chunk_fallback_count, validation_warning, usage, final_doc, callVars>>

NextStop ==
    \/ \E t \in StopRequests : StopRequestReadsStatus(t)
    \/ \E t \in StopRequests : StopRequestReadsFlag(t)
    \/ \E t \in StopRequests : StopRequestWrites(t)
    \/ \E t \in StopRequests : StopRequestAppendsEvent(t)
    \/ RunTaskStarts
    \/ RunTaskSetsRunning

SpecStop == InitStop /\ [][NextStop]_vars

\* the number of the events of a type in the event stream of the task
EventCount(type) == Cardinality({k \in 1..Len(events) : events[k].type = type})

\* C29: whatever the number and the interleaving of the stop requests on an
\* unfinished task, stop_requested is written once and the event stream of
\* the task holds one stop_requested event: never more than one, and one as
\* soon as a request has been answered
C29_OneStopRequestedEvent ==
    /\ EventCount("stop_requested") <= 1
    /\ Cardinality({t \in StopRequests : spc[t] \in {"append", "returned"}
                                          /\ stop_requested}) >= 1
           => Cardinality({t \in StopRequests : spc[t] = "append"})
                  + EventCount("stop_requested") = 1

-----------------------------------------------------------------------------
(* The partial results of a run and the failures of their post-processing: *)
(* specification SpecDegrade.  The chunk loop of convert appends the text  *)
(* of a chunk and rewrites the preview file; a stop request is observed by *)
(* the check at the head of the loop and _run_task packages the preview.   *)
(* The post-processing of a partial text may raise at either place.        *)

MaxDegradeChunks == 3

\* the converted texts of the chunks
DegradeTexts == {<<Text(1)>>, <<HeadLine(4, <<1>>, 1)>>, <<Blank>>}

InitDegrade ==
    /\ pc = "check_chunk"
    /\ content_body = <<Text(1)>>
    /\ expected_headings = <<>>
    /\ chunk_size = 8
    /\ chunk_strategy = "flat"
    /\ chunk_jobs = <<>>
    /\ markdown = <<Blank>>
    /\ cfg = [max_chunk_retries |-> 0, allow_partial_on_chunk_failure |-> FALSE,
              content_guard_min_tokens |-> ContentGuardMinTokens, generate_toc |-> TRUE,
              deterministic_toc |-> TRUE, strict_mode |-> FALSE,
              allow_partial_on_validation_failure |-> TRUE]
    /\ status = "running"
    /\ stop_requested = FALSE
    /\ output_file = NoFile
    /\ spc = "idle"
    /\ stop_at = -1
    /\ attempt = 0
    /\ last_error = ""
    /\ results = <<>>
    /\ preview = NoFile
    /\ exc = NoExc
    /\ llm_calls = 0
    /\ chunk_calls = 0
    /\ stop_seen = FALSE
    /\ chunk_fallback_count = 0
    /\ validation_warning = {}
    /\ usage = [returned |-> FALSE]
    /\ events = <<>>
    /\ final_doc = [exists |-> FALSE]
    /\ NoCall

\* a preview that degrades without telling
PreviewWarning_Silent(converted_chunks, postprocess_ok) == <<>>

\* _build_partial_preview_markdown, lines 503-511: the event of a
\* post-processing that raised (none for a blank text, which is returned
\* before the post-processing is tried)
PreviewWarning(converted_chunks, postprocess_ok) ==
    IF ~postprocess_ok /\ ~IsBlankText(JoinChunks(converted_chunks))
    THEN <<Event("partial_preview_warning", Len(converted_chunks))>>
    ELSE <<>>

\* _ensure_partial_output_file, lines 185-190: the event of the
\* post-processing of the preview text, tried when the preview file exists
\* and is not blank
PartialPostprocessEvent(preview_file, postprocess_ok) ==
    IF ~preview_file.exists THEN <<>>
    ELSE IF preview_file.empty THEN <<>>
    ELSE IF postprocess_ok THEN <<Event("partial_postprocess", 0)>>
    ELSE <<Event("partial_postprocess_failed", 0)>>

\* convert, lines 306 and 359-382: the check at the head of the loop does
\* not raise, the chunk is converted, its text is appended, the preview is
\* built and written, and chunk_completed is emitted
ChunkPreview ==
    /\ pc = "check_chunk"
    /\ ~stop_requested
    /\ Len(results) < MaxDegradeChunks
    /\ \E text \in DegradeTexts, postprocess_ok \in BOOLEAN :
          /\ results' = Append(results, [text            |-> text,
                                         attempts_used   |-> 1,
                                         fallback_used   |-> FALSE,
                                         fallback_reason |-> "",
                                         fallback_validation_reason |-> ""])
          /\ preview' = PartialPreview(Texts(results'), postprocess_ok)
          /\ events' = AppendEvents(events,
                                    PreviewWarning(Texts(results'), postprocess_ok)
                                        \o <<Event("chunk_completed", Len(results'))>>)
    /\ chunk_calls' = chunk_calls + 1
    /\ UNCHANGED <<pc, planVars, taskVars, stopVars, cfg, attempt, last_error, exc, llm_calls,
                   stop_seen>>
    /\ UNCHANGED <<chunk_fallback_count, validation_warning, usage, final_doc, callVars>>

\* convert, line 306: _check_stop observes the request and raises
\* TaskStoppedError, which _run_task catches
ChunkLoopStopped ==
    /\ pc = "check_chunk"
    /\ stop_requested
    /\ stop_seen' = TRUE
    /\ events' = _append_task_event(events, Event("task_stop_detected", 0))
    /\ pc' = "handle_stopped"
    /\ UNCHANGED <<planVars, taskVars, stopVars, cfg, attempt, last_error, results, preview,
                   exc, llm_calls, chunk_calls>>
    /\ UNCHANGED <<chunk_fallback_count, validation_warning, usage, final_doc, callVars>>

\* _run_task, lines 335-363, with _ensure_partial_output_file, lines
\* 161-195: the preview text is post-processed once more, or kept as it was
\* read when the post-processing raises, and written as the partial output
PackagePartialOutput ==
    /\ pc = "handle_stopped"
    /\ \E postprocess_ok \in BOOLEAN :
          /\ output_file' = _ensure_partial_output_file(preview, postprocess_ok)
          /\ events' = AppendEvents(events, PartialPostprocessEvent(preview, postprocess_ok)
                                                \o <<Event("stopped", 0)>>)
    /\ status' = "stopped"
    /\ stop_requested' = FALSE
    /\ pc' = "done"
    /\ UNCHANGED <<planVars, stopVars, workVars>>
    /\ UNCHANGED <<chunk_fallback_count, validation_warning, usage, final_doc, callVars>>

NextDegrade ==
    \/ StopTaskReadsStatus
    \/ StopTaskReadsFlag
    \/ StopTaskWrites
    \/ ChunkPreview
    \/ ChunkLoopStopped
    \/ PackagePartialOutput

SpecDegrade == InitDegrade /\ [][NextDegrade]_vars

\* the event stream holds the preview warning of the chunk numbered n
WarnedAtChunk(n) ==
    \E k \in 1..Len(events) : events[k] = Event("partial_preview_warning", n)

\* the preview holds every chunk text converted so far; its text is the raw
\* joined text (no post-processing pass) exactly when the warning of its
\* last chunk was recorded; and the loop is where it takes the next chunk
PreviewDegradesWithWarning ==
    (preview.exists /\ ~preview.empty) =>
        /\ preview.chunks = Texts(results)
        /\ (preview.passes = 0) <=> WarnedAtChunk(Len(results))
        /\ pc \in {"check_chunk", "handle_stopped", "done"}

====
